---- MODULE Spec2Model ----
(***************************************************************************)
(* Model of the valve specification search engine:                         *)
(*   src/database/jsonb_search.py  (tiered, scored search over the         *)
(*                                  component-system tables)               *)
(*   src/database/comprehensive_compatibility_mapping.py (compatibility    *)
(*                                  catalog and size normalizer)           *)
(*   src/database/search_specs.py  (search over the single table           *)
(*                                  valve_specs)                           *)
(*   src/database/synonym_normalizer.py, analyze_distinct_values.py        *)
(*                                 (synonym resolution, material grouping) *)
(*   src/database/database_api.py  (search endpoints, job results)         *)
(*   src/extraction/batch_processor.py (batch extraction with resume)      *)
(*                                                                         *)
(* Text is modelled as a sequence of one-character strings, so that        *)
(* trimming, quote removal, lower-casing, substring and pattern matching   *)
(* are computed character by character as the code computes them.          *)
(* Python's None and SQL's NULL are the value None below, which is no      *)
(* text.  The values of a query of the two searches are texts, a key with  *)
(* no text being an absent key; the normalizer is also given keys that     *)
(* hold None.                                                              *)
(*                                                                         *)
(* The specifications share the variables: SpecSize calls the size         *)
(* normalizers, SpecScore calls calculate_score, Spec fills the component  *)
(* tables (store) and calls search_jsonb_tiered, SpecSynonym calls the     *)
(* synonym normalizer and the material grouping, and SpecSingle fills the  *)
(* table valve_specs and calls the compatibility catalog and search_specs. *)
(* call is the call under way with its arguments and what it returns; the  *)
(* tables of a state that holds a call are the tables the call has read.   *)
(* SpecConcurrent runs calls of normalize_specs and search_jsonb_tiered    *)
(* on request threads, step by step (threads, cursors); SpecJob and        *)
(* SpecJobConcurrent merge job results into the cache (redis), by one      *)
(* request at a time and by concurrent requests; SpecBatch runs and        *)
(* resumes batch_process (progress_file, fetched); SpecApi answers the     *)
(* two search endpoints.                                                   *)
(***************************************************************************)
EXTENDS Integers, Sequences, FiniteSets, TLC

VARIABLES tablesExist, store, valve_specs, call, threads, cursors, redis,
          progress_file, fetched

vars == <<tablesExist, store, valve_specs, call, threads, cursors, redis,
          progress_file, fetched>>

-----------------------------------------------------------------------------
(* Text                                                                     *)

None == <<"<None>">>

Whitespace == {" ", "\t"}

QuoteMarks == {"\"", "'"}

DigitChars == <<"0", "1", "2", "3", "4", "5", "6", "7", "8", "9">>

UpperChars == <<"A", "B", "C", "D", "E", "F", "G", "H", "I", "J", "K", "L", "M",
                "N", "O", "P", "Q", "R", "S", "T", "U", "V", "W", "X", "Y", "Z">>

LowerChars == <<"a", "b", "c", "d", "e", "f", "g", "h", "i", "j", "k", "l", "m",
                "n", "o", "p", "q", "r", "s", "t", "u", "v", "w", "x", "y", "z">>

\* Python's truth test of an optional string: None and '' are false.
Truthy(s) == s # None /\ s # <<>>

\* Two optional strings are the same value; None and '' both stand for
\* "no value" and are not told apart.
SameText(a, b) == a = b \/ (~Truthy(a) /\ ~Truthy(b))

\* a or b, on optional strings.
OrElse(a, b) == IF Truthy(a) THEN a ELSE b

IsDigit(c) == \E i \in 1..Len(DigitChars) : DigitChars[i] = c

DigitValue(c) == (CHOOSE i \in 1..Len(DigitChars) : DigitChars[i] = c) - 1

\* The lower-case letter of each upper-case letter.
LowerTable ==
  [c \in {UpperChars[i] : i \in 1..Len(UpperChars)} |->
     LowerChars[CHOOSE i \in 1..Len(UpperChars) : UpperChars[i] = c]] @@ <<>>

LowerChar(c) == IF c \in DOMAIN LowerTable THEN LowerTable[c] ELSE c

\* str.lower() and SQL LOWER().
Lower(s) == [i \in 1..Len(s) |-> LowerChar(s[i])]

\* str.strip(): leading and trailing whitespace removed.
Strip(s) ==
  LET keep == {i \in 1..Len(s) : s[i] \notin Whitespace}
      Min(S) == CHOOSE x \in S : \A y \in S : x <= y
      Max(S) == CHOOSE x \in S : \A y \in S : x >= y
  IN IF keep = {} THEN <<>> ELSE SubSeq(s, Min(keep), Max(keep))

\* .replace('"', '').replace("'", '')
RemoveQuotes(s) ==
  LET NotQuote(c) == c \notin QuoteMarks IN SelectSeq(s, NotQuote)

\* Python's  a in b  on strings: a occurs in b as a contiguous run.
Contains(b, a) ==
  \E i \in 1..(Len(b) - Len(a) + 1) : SubSeq(b, i, i + Len(a) - 1) = a

-----------------------------------------------------------------------------
(* Size normalization                                                       *)

\* size_map of the tiered search, as the set of its <<key, value>> entries.
size_map ==
  { << <<"1", " ", "1", "/", "2">>, <<"1", "-", "1", "/", "2">> >>,
    << <<"1", " ", "1", "/", "4">>, <<"1", "-", "1", "/", "4">> >>,
    << <<"2", " ", "1", "/", "2">>, <<"2", "-", "1", "/", "2">> >>,
    << <<"3", " ", "1", "/", "2">>, <<"3", "-", "1", "/", "2">> >> }

\* SIZE_NORMALIZATION of the single-table search.
SIZE_NORMALIZATION ==
  size_map \cup
  { << <<"4", " ", "1", "/", "2">>, <<"4", "-", "1", "/", "2">> >>,
    << <<"0", ".", "5">>, <<"1", "/", "2">> >>,
    << <<"0", ".", "7", "5">>, <<"3", "/", "4">> >>,
    << <<"0", ".", "2", "5">>, <<"1", "/", "4">> >>,
    << <<"1", ".", "5">>, <<"1", "-", "1", "/", "2">> >>,
    << <<"2", ".", "5">>, <<"2", "-", "1", "/", "2">> >> }

\* dict.get(key, default)
DictGet(dict, key, default) ==
  IF \E e \in dict : e[1] = key
  THEN (CHOOSE e \in dict : e[1] = key)[2]
  ELSE default

\* jsonb_search.normalize_size
normalize_size(size) ==
  IF ~Truthy(size) THEN None
  ELSE LET size_clean == RemoveQuotes(Strip(size))
       IN DictGet(size_map, size_clean, size_clean)

\* comprehensive_compatibility_mapping.normalize_size
comprehensive_normalize_size(size_input) ==
  LET size_clean == Strip(size_input)
  IN DictGet(SIZE_NORMALIZATION, size_clean, size_clean)

-----------------------------------------------------------------------------
(* Pressure magnitude                                                       *)

\* Python's None where an integer is expected.
NoNumber == -1

\* int() of a run of decimal digits.
RECURSIVE ToInt(_)
ToInt(digits) ==
  IF digits = <<>> THEN 0
  ELSE 10 * ToInt(SubSeq(digits, 1, Len(digits) - 1))
       + DigitValue(digits[Len(digits)])

\* re.search(r'(\d+)', s).group(1): the first maximal run of digits of s,
\* <<>> when s has no digit.
FirstDigitRun(s) ==
  LET digitAt == {i \in 1..Len(s) : IsDigit(s[i])}
  IN IF digitAt = {} THEN <<>>
     ELSE LET first == CHOOSE i \in digitAt : \A j \in digitAt : i <= j
              last == CHOOSE k \in first..Len(s) :
                        /\ \A j \in first..k : j \in digitAt
                        /\ (k = Len(s) \/ (k + 1) \notin digitAt)
          IN SubSeq(s, first, last)

\* jsonb_search.extract_pressure_number
extract_pressure_number(pressure_str) ==
  IF ~Truthy(pressure_str) THEN NoNumber
  ELSE IF FirstDigitRun(pressure_str) = <<>> THEN NoNumber
       ELSE ToInt(FirstDigitRun(pressure_str))

\* Python's truth test of an optional integer: None and 0 are false.
TruthyNumber(n) == n # NoNumber /\ n # 0

-----------------------------------------------------------------------------
(* Binary floating point.  The score is a Python float (an IEEE 754 double):*)
(* the weights and thresholds are the doubles nearest to the decimal        *)
(* literals, every += rounds its exact sum to 53 significant bits (to       *)
(* nearest, ties to even), and round(score, 2) rounds the exact binary      *)
(* value to hundredths.  A number is a tuple of limbs of LimbBits bits, the *)
(* least significant first: FracLimbs limbs of fraction and one limb of     *)
(* whole part.  Bit i (from 1) weighs 2^(i - 1 - FracLimbs * LimbBits).     *)

MantissaBits == 53

LimbBits == 16

FracLimbs == 4

NumLimbs == FracLimbs + 1

Base == 2^LimbBits

LimbIndex == 1..NumLimbs

\* A number given limb by limb, as a tuple.
Limbs(f) == SubSeq(f, 1, NumLimbs)

\* The integer n (0 <= n < Base) as a number.
FromInt(n) == Limbs([l \in LimbIndex |-> IF l = NumLimbs THEN n ELSE 0])

Zero == FromInt(0)

\* The carry out of limb l of the sum of a and b.
RECURSIVE Carry(_, _, _)
Carry(a, b, l) ==
  IF l = 0 THEN 0 ELSE (a[l] + b[l] + Carry(a, b, l - 1)) \div Base

\* Exact sum.
BitsAdd(a, b) ==
  Limbs([l \in LimbIndex |-> (a[l] + b[l] + Carry(a, b, l - 1)) % Base])

\* Bit i of a.
BitAt(a, i) ==
  (a[(i - 1) \div LimbBits + 1] \div 2^((i - 1) % LimbBits)) % 2

\* Index of the most significant set bit, 0 for zero.
Msb(a) ==
  IF \A l \in LimbIndex : a[l] = 0 THEN 0
  ELSE LET top == CHOOSE l \in LimbIndex :
                    a[l] # 0 /\ \A h \in LimbIndex : h > l => a[h] = 0
           k == CHOOSE j \in 0..(LimbBits - 1) :
                    2^j <= a[top] /\ a[top] < 2^(j + 1)
       IN (top - 1) * LimbBits + k + 1

\* a >= b
GreaterEq(a, b) ==
  \/ a = b
  \/ \E l \in LimbIndex : /\ a[l] > b[l]
                          /\ \A h \in LimbIndex : h > l => a[h] = b[h]

\* The double nearest to the exact value a (+ something below the last bit
\* when sticky): 53 significant bits, round to nearest, ties to even.
RoundToDouble(a, sticky) ==
  LET drop == Msb(a) - MantissaBits       \* bits 1..drop do not fit
  IN IF drop <= 0 THEN a
     ELSE LET dl == (drop - 1) \div LimbBits + 1
              doff == (drop - 1) % LimbBits
              trunc == Limbs([l \in LimbIndex |->
                          IF l < dl THEN 0
                          ELSE IF l = dl THEN a[l] - (a[l] % 2^(doff + 1))
                          ELSE a[l]])
              unit == Limbs([l \in LimbIndex |->
                          IF l = drop \div LimbBits + 1
                          THEN 2^(drop % LimbBits) ELSE 0])
              rest == \/ sticky
                      \/ a[dl] % 2^doff # 0
                      \/ \E l \in LimbIndex : l < dl /\ a[l] # 0
              up == BitAt(a, drop) = 1 /\ (rest \/ BitAt(a, drop + 1) = 1)
          IN IF up THEN BitsAdd(trunc, unit) ELSE trunc

\* x + y on doubles.
FloatAdd(x, y) == RoundToDouble(BitsAdd(x, y), FALSE)

\* What division by 100 leaves of the limbs of d above limb l.
RECURSIVE Leftover(_, _)
Leftover(d, l) ==
  IF l >= NumLimbs THEN 0
  ELSE (Leftover(d, l + 1) * Base + d[l + 1]) % 100

\* The double a decimal literal p/100 denotes (0.4 is Literal(40)): p is
\* divided by 100 limb by limb and the quotient rounded.
Literal(p) ==
  LET d == FromInt(p)
      quot == Limbs([l \in LimbIndex |->
                      (Leftover(d, l) * Base + d[l]) \div 100])
  IN RoundToDouble(quot, Leftover(d, 0) # 0)

\* The carry out of limb l of 100 * x.
RECURSIVE CarryTimes100(_, _)
CarryTimes100(x, l) ==
  IF l = 0 THEN 0 ELSE (100 * x[l] + CarryTimes100(x, l - 1)) \div Base

\* round(x, 2), in hundredths: the integer nearest to the exact 100 * x,
\* ties to even.  The returned float is the double nearest to that many
\* hundredths.
RoundHundredths(x) ==
  LET y == Limbs([l \in LimbIndex |->
              IF l = NumLimbs THEN 100 * x[l] + CarryTimes100(x, l - 1)
              ELSE (100 * x[l] + CarryTimes100(x, l - 1)) % Base])
      whole == y[NumLimbs]
      half == Base \div 2
      rest == \/ y[FracLimbs] % half # 0
              \/ \E l \in 1..(FracLimbs - 1) : y[l] # 0
      up == y[FracLimbs] >= half /\ (rest \/ whole % 2 = 1)
  IN IF up THEN whole + 1 ELSE whole

-----------------------------------------------------------------------------
(* Scoring.  A candidate (one row of the union of the component tables) is  *)
(* a record of the projected columns; a query (normalized_specs) is a       *)
(* record of the six categories, None where the query has no such key.      *)

\* x or ''
OrEmpty(x) == IF Truthy(x) THEN x ELSE <<>>

\* The decimal literals of the weights, in hundredths, in the order the
\* categories are scored: size, valve type, pressure, material, connection.
Weights == <<40, 30, 15, 10, 5>>

Categories == 1..Len(Weights)

\* A size rule that gives the weight only on a match.
SizeAwardedOnMatchOnly(result, normalized_specs) ==
  /\ Truthy(normalize_size(normalized_specs.size))
  /\ normalize_size(normalized_specs.size) = normalize_size(result.size)

\* Lines 156-164: is the size weight added?
SizeAwarded(result, normalized_specs) ==
  LET requested_size == normalize_size(normalized_specs.size)
      product_size == normalize_size(result.size)
  IN IF Truthy(requested_size) /\ Truthy(product_size)
     THEN requested_size = product_size
     ELSE ~Truthy(requested_size)

\* Lines 166-174: is the valve type weight added?
TypeAwarded(result, normalized_specs) ==
  LET requested_type == Lower(OrEmpty(normalized_specs.valveType))
      product_type == Lower(OrEmpty(OrElse(result.item, result.component_type)))
  IN IF requested_type # <<>>
     THEN \/ Contains(product_type, requested_type)
          \/ Contains(requested_type, product_type)
     ELSE TRUE

\* Lines 176-184: is the pressure weight added?
PressureAwarded(result, normalized_specs) ==
  LET requested_pressure == extract_pressure_number(normalized_specs.pressureRating)
      product_pressure ==
        extract_pressure_number(OrElse(result.pressure_rating, result.pressure_class))
  IN IF TruthyNumber(requested_pressure) /\ TruthyNumber(product_pressure)
     THEN product_pressure >= requested_pressure
     ELSE ~TruthyNumber(requested_pressure)

\* Lines 186-194: is the material weight added?
MaterialAwarded(result, normalized_specs) ==
  LET requested_material == Lower(OrEmpty(normalized_specs.material))
      product_material == Lower(OrEmpty(result.body_material))
  IN IF requested_material # <<>>
     THEN \/ Contains(product_material, requested_material)
          \/ Contains(requested_material, product_material)
     ELSE TRUE

\* Lines 196-204: is the connection weight added?
ConnectionAwarded(result, normalized_specs) ==
  LET requested_connection == Lower(OrEmpty(normalized_specs.endConnection))
      product_connection ==
        Lower(OrEmpty(OrElse(result.connection_type, result.end_connection)))
  IN IF requested_connection # <<>>
     THEN \/ Contains(product_connection, requested_connection)
          \/ Contains(requested_connection, product_connection)
     ELSE TRUE

\* Which of the five  score += weight  statements run.
Awarded(result, normalized_specs) ==
  << SizeAwarded(result, normalized_specs),
     TypeAwarded(result, normalized_specs),
     PressureAwarded(result, normalized_specs),
     MaterialAwarded(result, normalized_specs),
     ConnectionAwarded(result, normalized_specs) >>

\* score after the first n categories: 0.0, then += in the code's order.
RECURSIVE Accumulate(_, _)
Accumulate(awarded, n) ==
  IF n = 0 THEN Zero
  ELSE IF awarded[n]
       THEN FloatAdd(Accumulate(awarded, n - 1), Literal(Weights[n]))
       ELSE Accumulate(awarded, n - 1)

\* Lines 206-214: the tier of the (unrounded) float score.
Tier(score) ==
  IF GreaterEq(score, Literal(90)) THEN 1
  ELSE IF GreaterEq(score, Literal(70)) THEN 2
  ELSE IF GreaterEq(score, Literal(50)) THEN 3
  ELSE 4

\* (round(score, 2), tier) for each way the weights can be awarded; score is
\* in hundredths.
ScoreTable ==
  [awarded \in [Categories -> BOOLEAN] |->
     LET score == Accumulate(awarded, Len(Weights))
     IN [score |-> RoundHundredths(score), tier |-> Tier(score)]] @@ <<>>

\* jsonb_search.calculate_score
calculate_score(result, normalized_specs) ==
  ScoreTable[Awarded(result, normalized_specs)]

-----------------------------------------------------------------------------
(* Inputs of the size normalizers: a core spelling between two runs of      *)
(* whitespace and quote marks.                                              *)

MaxPad == 2

PadChars == {" ", "\"", "'"}

Pads == UNION {[1..n -> PadChars] : n \in 0..MaxPad}

SizeCores ==
  { <<>>,
    <<"6">>,
    <<"1", "6">>,
    <<"1", " ", "1", "/", "2">>,
    <<"1", "-", "1", "/", "2">>,
    <<"0", ".", "5">>,
    <<"1", "/", "2">> }

SizeInputs == {p \o c \o s : p \in Pads, c \in SizeCores, s \in Pads}

-----------------------------------------------------------------------------
(* Candidates and queries.                                                  *)

Row(id, size, item, component_type, pressure_rating, pressure_class, body_material, seat_material, connection_type, end_connection, body_style) ==
  [id |-> id, size |-> size, item |-> item, component_type |-> component_type,
   pressure_rating |-> pressure_rating, pressure_class |-> pressure_class,
   body_material |-> body_material, seat_material |-> seat_material,
   connection_type |-> connection_type, end_connection |-> end_connection,
   body_style |-> body_style]

\* The rows the component tables can hold.  Each row has an id of its own,
\* so ORDER BY id DESC is one order.
Rows ==
  { Row(1, <<"6">>, None, <<"g", "a", "t", "e", "_", "v", "a", "l", "v", "e">>, <<"1", "5", "0">>, None,
        <<"B", "r", "a", "s", "s">>, <<"P", "T", "F", "E">>, <<"L", "u", "g">>, None, None),
    Row(2, <<"1", "6">>, <<"G", "a", "t", "e", " ", "V", "a", "l", "v", "e">>, None, <<"3", "0", "0">>, None,
        <<"B", "r", "a", "s", "s">>, <<"P", "T", "F", "E">>, <<"L", "u", "g">>, None, None),
    Row(3, <<"\"", "6", "\"">>, <<"G", "a", "t", "e", " ", "V", "a", "l", "v", "e">>, None, None, <<"C", "l", "a", "s", "s", " ", "1", "5", "0">>,
        <<"b", "r", "a", "s", "s">>, <<"p", "t", "f", "e">>, <<"W", "a", "f", "e", "r">>, None, <<"L", "u", "g">>),
    Row(4, <<"6", "\"">>, <<"B", "a", "l", "l", " ", "V", "a", "l", "v", "e">>, None, <<"N", "/", "A">>, None,
        <<"S", "t", "e", "e", "l">>, <<"p", "t", "f", "e">>, None, <<"l", "u", "g">>, None),
    Row(5, <<"6">>, None, None, <<"3", "0", "0">>, None,
        None, None, None, None, None),
    Row(6, None, <<"G", "a", "t", "e", " ", "V", "a", "l", "v", "e">>, None, None, None,
        <<"B", "r", "a", "s", "s">>, <<"P", "T", "F", "E">>, <<"L", "u", "g">>, None, None) }

Query(size, valveType, pressureRating, material, seatMaterial, endConnection) ==
  [size |-> size, valveType |-> valveType, pressureRating |-> pressureRating,
   material |-> material, seatMaterial |-> seatMaterial,
   endConnection |-> endConnection]

\* Queries scored against a candidate.
ScoreQueries ==
  { Query(s, v, p, m, None, c) :
      s \in {None, <<"6", "\"">>, <<"1", "6">>},
      v \in {None, <<"g", "a", "t", "e">>, <<"g", "a", "t", "e", "_", "v", "a", "l", "v", "e">>},
      p \in {None, <<"1", "5", "0">>, <<"3", "0", "0">>, <<"0">>, <<"h", "i", "g", "h">>},
      m \in {None, <<"B", "r", "a", "s", "s">>, <<"s", "t", "e", "e", "l">>},
      c \in {None, <<"L", "u", "g">>} }

\* Queries of the tiered search.
SearchQueries ==
  { Query(s, v, p, m, e, c) :
      s \in {None, <<"6">>, <<"6", "\"">>},
      v \in {None, <<"g", "a", "t", "e", "_", "v", "a", "l", "v", "e">>},
      p \in {None, <<"1", "5", "0">>, <<"0">>},
      m \in {None, <<"B", "r", "a", "s", "s">>},
      e \in {None, <<"p", "t", "f", "e">>},
      c \in {None, <<"L", "u", "g">>} }

\* The store holds at most MaxRows rows; a search asks for at most
\* MaxResults results.
MaxRows == 4

MaxResults == 2

-----------------------------------------------------------------------------
(* The strict filter of search_jsonb_tiered: the WHERE clause, evaluated by *)
(* the database on each row of the union.  A comparison with a NULL column  *)
(* is not true.                                                             *)

\* text ILIKE '%' || v || '%'  for a v without '%' and '\': v occurs in text,
\* letter case ignored, each '_' of v standing for any one character.
ILikeContains(text, v) ==
  /\ text # None
  /\ \E i \in 1..(Len(text) - Len(v) + 1) :
       \A k \in 1..Len(v) :
         v[k] = "_" \/ LowerChar(v[k]) = LowerChar(text[i + k - 1])

\* A size condition by substring.
SizeConditionBySubstring(row, size_normalized) ==
  row.size # None /\ Contains(row.size, size_normalized)

\* Lines 287-299: (size = %s OR size = %s OR size = %s)
SizeCondition(row, size_normalized) ==
  /\ row.size # None
  /\ \/ row.size = size_normalized
     \/ row.size = size_normalized \o <<"\"">>
     \/ row.size = <<"\"">> \o size_normalized \o <<"\"">>

\* Lines 301-306: (item ILIKE %s OR component_type ILIKE %s)
TypeCondition(row, valve_type) ==
  \/ ILikeContains(row.item, valve_type)
  \/ ILikeContains(row.component_type, valve_type)

\* COALESCE(pressure_rating, pressure_class, '')
PressureText(row) ==
  IF row.pressure_rating # None THEN row.pressure_rating
  ELSE IF row.pressure_class # None THEN row.pressure_class
  ELSE <<>>

\* REGEXP_REPLACE(text, '[^0-9]', '', 'g')
DigitsOnly(text) == SelectSeq(text, IsDigit)

\* CAST('' AS INTEGER) is an error.
CastFails(row) == DigitsOnly(PressureText(row)) = <<>>

\* Lines 308-315: (CAST(... AS INTEGER) = %s), on a row whose cast succeeds.
PressureCondition(row, pressure_num) ==
  ToInt(DigitsOnly(PressureText(row))) = pressure_num

\* Lines 317-322: (LOWER(body_material) = LOWER(%s))
MaterialCondition(row, material) ==
  row.body_material # None /\ Lower(row.body_material) = Lower(material)

\* Lines 324-329: (LOWER(seat_material) = LOWER(%s))
SeatCondition(row, seat_material) ==
  row.seat_material # None /\ Lower(row.seat_material) = Lower(seat_material)

\* Lines 331-338: connection_type, end_connection or body_style equals the
\* value, letter case ignored.
ConnectionCondition(row, connection) ==
  \/ row.connection_type # None /\ Lower(row.connection_type) = Lower(connection)
  \/ row.end_connection # None /\ Lower(row.end_connection) = Lower(connection)
  \/ row.body_style # None /\ Lower(row.body_style) = Lower(connection)

\* Line 269: size = normalize_size(normalized_specs.get('size'))
QuerySize(normalized_specs) == normalize_size(normalized_specs.size)

\* Lines 309-311: is the pressure condition part of the query?
PressureFiltered(normalized_specs) ==
  /\ Truthy(normalized_specs.pressureRating)
  /\ TruthyNumber(extract_pressure_number(normalized_specs.pressureRating))

\* The conditions other than the pressure condition, joined by AND; a
\* condition is there only if the query's value is true in Python's sense.
\* relax_constraints is a parameter of search_jsonb_tiered that its body
\* never reads.
OtherConditions(row, normalized_specs) ==
  /\ Truthy(QuerySize(normalized_specs))
       => SizeCondition(row, normalize_size(QuerySize(normalized_specs)))
  /\ Truthy(normalized_specs.valveType)
       => TypeCondition(row, normalized_specs.valveType)
  /\ Truthy(normalized_specs.material)
       => MaterialCondition(row, normalized_specs.material)
  /\ Truthy(normalized_specs.seatMaterial)
       => SeatCondition(row, normalized_specs.seatMaterial)
  /\ Truthy(normalized_specs.endConnection)
       => ConnectionCondition(row, normalized_specs.endConnection)

\* The WHERE clause on a row.
WhereClause(row, normalized_specs) ==
  /\ OtherConditions(row, normalized_specs)
  /\ PressureFiltered(normalized_specs)
       => /\ ~CastFails(row)
          /\ PressureCondition(row,
               extract_pressure_number(normalized_specs.pressureRating))

\* The conditions and the score of every row (by its id) under every query,
\* computed once.
Evaluated ==
  LET ByQuery(row) ==
        [normalized_specs \in SearchQueries |->
           [cast_fails |-> PressureFiltered(normalized_specs) /\ CastFails(row),
            others |-> OtherConditions(row, normalized_specs),
            where |-> WhereClause(row, normalized_specs),
            scored |-> calculate_score(row, normalized_specs)]] @@ <<>>
      table == [id \in 1..Cardinality(Rows) |->
                  ByQuery(CHOOSE row \in Rows : row.id = id)]
  IN SubSeq(table, 1, Cardinality(Rows))

\* The rows of S in the order of ORDER BY id DESC.
RECURSIVE ByIdDesc(_)
ByIdDesc(S) ==
  IF S = {} THEN <<>>
  ELSE LET top == CHOOSE r \in S : \A o \in S : o.id <= r.id
       IN <<top>> \o ByIdDesc(S \ {top})

\* The first n elements of a list:  seq[:n]  and  LIMIT n.
Take(seq, n) == SubSeq(seq, 1, IF n < Len(seq) THEN n ELSE Len(seq))

\* The rows the query selects when it runs to its end: they satisfy the
\* whole WHERE clause; the first LIMIT of them by descending id.
Selected(rows, normalized_specs, max_results) ==
  Take(ByIdDesc({r \in rows : Evaluated[r.id][normalized_specs].where}),
       max_results * 3)

\* The database evaluates the conditions of a row in an order of its own
\* choosing and stops reading rows once LIMIT rows are found, so a row whose
\* pressure text has no digit raises the cast error only if the pressure
\* condition is evaluated on it.  The error can happen when there is such a
\* row at all and LIMIT is not 0 ...
ExecutionMayFail(rows, normalized_specs, max_results) ==
  /\ max_results * 3 > 0
  /\ \E r \in rows : Evaluated[r.id][normalized_specs].cast_fails

\* ... and must happen when such a row satisfies every other condition and
\* fewer than LIMIT selected rows come before it.
ExecutionMustFail(rows, normalized_specs, max_results) ==
  \E r \in rows :
    /\ Evaluated[r.id][normalized_specs].cast_fails
    /\ Evaluated[r.id][normalized_specs].others
    /\ LET sel == Selected(rows, normalized_specs, max_results)
       IN Cardinality({i \in 1..Len(sel) : sel[i].id > r.id}) < max_results * 3

\* Lines 370-378: each selected row with its score and tier.
Scored(results, normalized_specs) ==
  [i \in 1..Len(results) |->
     [row |-> results[i],
      score |-> Evaluated[results[i].id][normalized_specs].scored.score,
      tier |-> Evaluated[results[i].id][normalized_specs].scored.tier]]

\* The list left in the order of the query.
Unsorted(scored_results) == scored_results

\* x put into the list sorted, after the elements that do not score less.
RECURSIVE InsertByScore(_, _)
InsertByScore(sorted, x) ==
  IF sorted = <<>> THEN <<x>>
  ELSE IF Head(sorted).score >= x.score
       THEN <<Head(sorted)>> \o InsertByScore(Tail(sorted), x)
       ELSE <<x>> \o sorted

\* Line 381: list.sort(key=score, reverse=True), a stable sort.
RECURSIVE SortByScore(_)
SortByScore(scored_results) ==
  IF scored_results = <<>> THEN <<>>
  ELSE InsertByScore(
         SortByScore(SubSeq(scored_results, 1, Len(scored_results) - 1)),
         scored_results[Len(scored_results)])

\* Lines 370-384: what search_jsonb_tiered returns when the query has run.
\* No line of the function reads relax_constraints.
Ranked(rows, normalized_specs, max_results, relax_constraints) ==
  Take(SortByScore(Scored(Selected(rows, normalized_specs, max_results),
                          normalized_specs)),
       max_results)

-----------------------------------------------------------------------------
(* Calls of the size normalizers: one call, then a second call on what the  *)
(* first returned.                                                          *)

NoCall == [op |-> "none"]

NormalizeSize(x) ==
  /\ call = NoCall
  /\ call' = [op |-> "normalize_size", which |-> "tiered", arg |-> x,
              ret |-> normalize_size(x)]
  /\ UNCHANGED <<tablesExist, store, valve_specs,
               threads, cursors, redis, progress_file, fetched>>

ComprehensiveNormalizeSize(x) ==
  /\ call = NoCall
  /\ call' = [op |-> "normalize_size", which |-> "single", arg |-> x,
              ret |-> comprehensive_normalize_size(x)]
  /\ UNCHANGED <<tablesExist, store, valve_specs,
               threads, cursors, redis, progress_file, fetched>>

NormalizeSizeAgain ==
  /\ call.op = "normalize_size"
  /\ call' = [op |-> "normalize_size_again", which |-> call.which,
              arg |-> call.arg, first |-> call.ret,
              ret |-> IF call.which = "tiered"
                      THEN normalize_size(call.ret)
                      ELSE comprehensive_normalize_size(call.ret)]
  /\ UNCHANGED <<tablesExist, store, valve_specs,
               threads, cursors, redis, progress_file, fetched>>

\* One call of calculate_score; awarded records which weights were added.
CalculateScore(result, normalized_specs) ==
  /\ call = NoCall
  /\ call' = [op |-> "calculate_score", result |-> result,
              normalized_specs |-> normalized_specs,
              awarded |-> Awarded(result, normalized_specs),
              ret |-> calculate_score(result, normalized_specs)]
  /\ UNCHANGED <<tablesExist, store, valve_specs,
               threads, cursors, redis, progress_file, fetched>>

\* The crawler creates the first component table.
CreateTables ==
  /\ call = NoCall
  /\ ~tablesExist
  /\ tablesExist' = TRUE
  /\ UNCHANGED <<store, valve_specs, call,
               threads, cursors, redis, progress_file, fetched>>

\* The crawler stores a product.
InsertRow(row) ==
  /\ call = NoCall
  /\ tablesExist
  /\ Cardinality(store) < MaxRows
  /\ \A r \in store : r.id # row.id
  /\ store' = store \cup {row}
  /\ UNCHANGED <<tablesExist, valve_specs, call,
               threads, cursors, redis, progress_file, fetched>>

\* Line 238: the connection cannot be made; the exception leaves
\* search_jsonb_tiered.
SearchCannotConnect(normalized_specs, max_results, relax_constraints) ==
  /\ call = NoCall
  /\ call' = [op |-> "search_jsonb_tiered",
              normalized_specs |-> normalized_specs,
              max_results |-> max_results,
              relax_constraints |-> relax_constraints,
              executed |-> "not connected",
              ret |-> [raised |-> TRUE, list |-> <<>>]]
  /\ UNCHANGED <<tablesExist, store, valve_specs,
               threads, cursors, redis, progress_file, fetched>>

\* Lines 243-259: no component table, [] is returned.
SearchNoTables(normalized_specs, max_results, relax_constraints) ==
  /\ call = NoCall
  /\ ~tablesExist
  /\ call' = [op |-> "search_jsonb_tiered",
              normalized_specs |-> normalized_specs,
              max_results |-> max_results,
              relax_constraints |-> relax_constraints,
              executed |-> "no tables",
              ret |-> [raised |-> FALSE, list |-> <<>>]]
  /\ UNCHANGED <<tablesExist, store, valve_specs,
               threads, cursors, redis, progress_file, fetched>>

\* Lines 349-357: cursor.execute raises; the exception is caught and [] is
\* returned.
SearchQueryFails(normalized_specs, max_results, relax_constraints) ==
  /\ call = NoCall
  /\ tablesExist
  /\ ExecutionMayFail(store, normalized_specs, max_results)
  /\ call' = [op |-> "search_jsonb_tiered",
              normalized_specs |-> normalized_specs,
              max_results |-> max_results,
              relax_constraints |-> relax_constraints,
              executed |-> "failed",
              ret |-> [raised |-> FALSE, list |-> <<>>]]
  /\ UNCHANGED <<tablesExist, store, valve_specs,
               threads, cursors, redis, progress_file, fetched>>

\* Lines 349-384: the query runs; its rows are scored, sorted and cut.
SearchRuns(normalized_specs, max_results, relax_constraints) ==
  /\ call = NoCall
  /\ tablesExist
  /\ ~ExecutionMustFail(store, normalized_specs, max_results)
  /\ call' = [op |-> "search_jsonb_tiered",
              normalized_specs |-> normalized_specs,
              max_results |-> max_results,
              relax_constraints |-> relax_constraints,
              executed |-> "ran",
              ret |-> [raised |-> FALSE,
                       list |-> Ranked(store, normalized_specs, max_results,
                                       relax_constraints)]]
  /\ UNCHANGED <<tablesExist, store, valve_specs,
               threads, cursors, redis, progress_file, fetched>>

\* The arguments of a call of search_jsonb_tiered: normalized_specs,
\* max_results, relax_constraints.
SearchCalls == SearchQueries \X (0..MaxResults) \X BOOLEAN

\* The caller takes the returned value; the next call starts afresh.
Return ==
  /\ call # NoCall
  /\ call' = NoCall
  /\ UNCHANGED <<tablesExist, store, valve_specs,
               threads, cursors, redis, progress_file, fetched>>

\* The request threads of the API server.
MaxThreads == 2

Threads == 1..MaxThreads

\* redis_client.get of a key that is not in the cache.
NoValue == [found |-> FALSE, results |-> <<>>]

\* No progress file: load_progress returns the empty progress.
NoProgressFile == [exists |-> FALSE, processed |-> <<>>, failed |-> <<>>, last_index |-> 0]

\* No table, no call, no request under way, an empty cache behind a
\* connected client, no progress file and no page fetched.
Init ==
  /\ tablesExist = FALSE
  /\ store = {}
  /\ valve_specs = {}
  /\ call = NoCall
  /\ threads = [t \in Threads |-> NoCall]
  /\ cursors = [t \in Threads |-> None]
  /\ redis = [client |-> TRUE, job |-> NoValue]
  /\ progress_file = NoProgressFile
  /\ fetched = <<>>

NextSize ==
  \/ \E x \in SizeInputs : NormalizeSize(x)
  \/ \E x \in SizeInputs : ComprehensiveNormalizeSize(x)
  \/ NormalizeSizeAgain
  \/ Return

SpecSize == Init /\ [][NextSize]_vars

NextScore ==
  \/ \E result \in Rows, normalized_specs \in ScoreQueries :
       CalculateScore(result, normalized_specs)
  \/ Return

SpecScore == Init /\ [][NextScore]_vars

Next ==
  \/ CreateTables
  \/ \E row \in Rows : InsertRow(row)
  \/ call = NoCall /\ \E c \in SearchCalls : SearchCannotConnect(c[1], c[2], c[3])
  \/ call = NoCall /\ \E c \in SearchCalls : SearchNoTables(c[1], c[2], c[3])
  \/ call = NoCall /\ \E c \in SearchCalls : SearchQueryFails(c[1], c[2], c[3])
  \/ call = NoCall /\ \E c \in SearchCalls : SearchRuns(c[1], c[2], c[3])
  \/ Return

Spec == Init /\ [][Next]_vars

-----------------------------------------------------------------------------
(* Synonym normalizer (src/database/synonym_normalizer.py).  A dict is the  *)
(* sequence of its <<key, value>> items in insertion order, keys distinct.  *)

Synonym(synonym, canonical, category) == [synonym |-> synonym, canonical |-> canonical, category |-> category]

\* The built-in table, in the order its keys are inserted.
synonym_map ==
  << Synonym(<<"s", "t", "a", "i", "n", "l", "e", "s", "s", " ", "s", "t", "e", "e", "l">>,
             <<"s", "t", "a", "i", "n", "l", "e", "s", "s", "_", "s", "t", "e", "e", "l">>, "material"),
     Synonym(<<"s", "t", "a", "i", "n", "l", "e", "s", "s">>,
             <<"s", "t", "a", "i", "n", "l", "e", "s", "s", "_", "s", "t", "e", "e", "l">>, "material"),
     Synonym(<<"s", "s">>,
             <<"s", "t", "a", "i", "n", "l", "e", "s", "s", "_", "s", "t", "e", "e", "l">>, "material"),
     Synonym(<<"s", ".", "s", ".">>,
             <<"s", "t", "a", "i", "n", "l", "e", "s", "s", "_", "s", "t", "e", "e", "l">>, "material"),
     Synonym(<<"3", "1", "6", "s", "s">>,
             <<"s", "t", "a", "i", "n", "l", "e", "s", "s", "_", "s", "t", "e", "e", "l">>, "material"),
     Synonym(<<"3", "0", "4", "s", "s">>,
             <<"s", "t", "a", "i", "n", "l", "e", "s", "s", "_", "s", "t", "e", "e", "l">>, "material"),
     Synonym(<<"3", "1", "6">>,
             <<"s", "t", "a", "i", "n", "l", "e", "s", "s", "_", "s", "t", "e", "e", "l">>, "material"),
     Synonym(<<"3", "0", "4">>,
             <<"s", "t", "a", "i", "n", "l", "e", "s", "s", "_", "s", "t", "e", "e", "l">>, "material"),
     Synonym(<<"c", "a", "r", "b", "o", "n", " ", "s", "t", "e", "e", "l">>,
             <<"c", "a", "r", "b", "o", "n", "_", "s", "t", "e", "e", "l">>, "material"),
     Synonym(<<"c", "a", "r", "b", "o", "n">>,
             <<"c", "a", "r", "b", "o", "n", "_", "s", "t", "e", "e", "l">>, "material"),
     Synonym(<<"c", "s">>,
             <<"c", "a", "r", "b", "o", "n", "_", "s", "t", "e", "e", "l">>, "material"),
     Synonym(<<"c", ".", "s", ".">>,
             <<"c", "a", "r", "b", "o", "n", "_", "s", "t", "e", "e", "l">>, "material"),
     Synonym(<<"b", "r", "a", "s", "s">>,
             <<"b", "r", "a", "s", "s">>, "material"),
     Synonym(<<"b", "r">>,
             <<"b", "r", "a", "s", "s">>, "material"),
     Synonym(<<"e", "p", "d", "m">>,
             <<"e", "p", "d", "m">>, "seat_material"),
     Synonym(<<"v", "i", "t", "o", "n">>,
             <<"v", "i", "t", "o", "n">>, "seat_material"),
     Synonym(<<"f", "k", "m">>,
             <<"v", "i", "t", "o", "n">>, "seat_material"),
     Synonym(<<"n", "b", "r">>,
             <<"n", "b", "r">>, "seat_material"),
     Synonym(<<"n", "i", "t", "r", "i", "l", "e">>,
             <<"n", "b", "r">>, "seat_material"),
     Synonym(<<"p", "t", "f", "e">>,
             <<"p", "t", "f", "e">>, "seat_material"),
     Synonym(<<"t", "e", "f", "l", "o", "n">>,
             <<"p", "t", "f", "e">>, "seat_material"),
     Synonym(<<"s", "o", "c", "k", "e", "t", "-", "w", "e", "l", "d">>,
             <<"s", "o", "c", "k", "e", "t", "_", "w", "e", "l", "d">>, "connection"),
     Synonym(<<"s", "o", "c", "k", "e", "t", " ", "w", "e", "l", "d">>,
             <<"s", "o", "c", "k", "e", "t", "_", "w", "e", "l", "d">>, "connection"),
     Synonym(<<"s", "o", "c", "k", "e", "t">>,
             <<"s", "o", "c", "k", "e", "t", "_", "w", "e", "l", "d">>, "connection"),
     Synonym(<<"s", "w">>,
             <<"s", "o", "c", "k", "e", "t", "_", "w", "e", "l", "d">>, "connection"),
     Synonym(<<"t", "h", "r", "e", "a", "d", "e", "d">>,
             <<"t", "h", "r", "e", "a", "d", "e", "d">>, "connection"),
     Synonym(<<"t", "h", "r", "e", "a", "d">>,
             <<"t", "h", "r", "e", "a", "d", "e", "d">>, "connection"),
     Synonym(<<"n", "p", "t">>,
             <<"t", "h", "r", "e", "a", "d", "e", "d">>, "connection"),
     Synonym(<<"f", "n", "p", "t">>,
             <<"t", "h", "r", "e", "a", "d", "e", "d">>, "connection"),
     Synonym(<<"m", "n", "p", "t">>,
             <<"t", "h", "r", "e", "a", "d", "e", "d">>, "connection"),
     Synonym(<<"f", "l", "a", "n", "g", "e", "d">>,
             <<"f", "l", "a", "n", "g", "e", "d">>, "connection"),
     Synonym(<<"f", "l", "a", "n", "g", "e">>,
             <<"f", "l", "a", "n", "g", "e", "d">>, "connection"),
     Synonym(<<"f", "l", "g">>,
             <<"f", "l", "a", "n", "g", "e", "d">>, "connection"),
     Synonym(<<"l", "u", "g">>,
             <<"l", "u", "g">>, "connection"),
     Synonym(<<"l", "u", "g", "g", "e", "d">>,
             <<"l", "u", "g">>, "connection"),
     Synonym(<<"w", "a", "f", "e", "r">>,
             <<"w", "a", "f", "e", "r">>, "connection") >>

\* The keys whose values are resolved.
synonym_fields ==
  << <<"m", "a", "t", "e", "r", "i", "a", "l">>,
     <<"b", "o", "d", "y", "M", "a", "t", "e", "r", "i", "a", "l">>,
     <<"b", "o", "d", "y", "_", "m", "a", "t", "e", "r", "i", "a", "l">>,
     <<"s", "e", "a", "t", "M", "a", "t", "e", "r", "i", "a", "l">>,
     <<"s", "e", "a", "t", "_", "m", "a", "t", "e", "r", "i", "a", "l">>,
     <<"s", "e", "a", "t">>,
     <<"e", "n", "d", "C", "o", "n", "n", "e", "c", "t", "i", "o", "n">>,
     <<"c", "o", "n", "n", "e", "c", "t", "i", "o", "n">>,
     <<"e", "n", "d", "_", "c", "o", "n", "n", "e", "c", "t", "i", "o", "n">>,
     <<"v", "a", "l", "v", "e", "T", "y", "p", "e">>,
     <<"v", "a", "l", "v", "e", "_", "t", "y", "p", "e">>,
     <<"t", "y", "p", "e">>,
     <<"p", "r", "e", "s", "s", "u", "r", "e", "R", "a", "t", "i", "n", "g">>,
     <<"p", "r", "e", "s", "s", "u", "r", "e">>,
     <<"p", "r", "e", "s", "s", "u", "r", "e", "_", "r", "a", "t", "i", "n", "g">> >>

InSeq(x, s) == \E i \in 1..Len(s) : s[i] = x

HasKey(dict, key) == \E i \in 1..Len(dict) : dict[i][1] = key

\* dict.get(key): the value under key, None if the key is absent.
Item(dict, key) == IF HasKey(dict, key) THEN dict[CHOOSE i \in 1..Len(dict) : dict[i][1] = key][2] ELSE None

\* dict[key] = value: an existing key keeps its place, a new key goes last.
SetItem(dict, key, value) ==
  IF HasKey(dict, key)
  THEN [i \in 1..Len(dict) |-> IF dict[i][1] = key THEN <<key, value>> ELSE dict[i]]
  ELSE Append(dict, <<key, value>>)

\* .replace(' ', '_')
ReplaceSpaces(s) == [i \in 1..Len(s) |-> IF s[i] = " " THEN "_" ELSE s[i]]

\* value_lower in self.synonym_map
InSynonymMap(value_lower) == \E i \in 1..Len(synonym_map) : synonym_map[i].synonym = value_lower

\* self.synonym_map[value_lower]
Mapping(value_lower) == synonym_map[CHOOSE i \in 1..Len(synonym_map) : synonym_map[i].synonym = value_lower]

\* synonym in value_lower or value_lower in synonym
PartialMatch(synonym, value_lower) == Contains(value_lower, synonym) \/ Contains(synonym, value_lower)

\* The loop over synonym_map.items() from entry i on: the index of the
\* first entry that matches, 0 when the loop ends with found = False.
RECURSIVE FirstPartialMatch(_, _)
FirstPartialMatch(value_lower, i) ==
  IF i > Len(synonym_map) THEN 0
  ELSE IF PartialMatch(synonym_map[i].synonym, value_lower) THEN i
  ELSE FirstPartialMatch(value_lower, i + 1)

\* The value with the exact lookup left out: the partial scan alone.
CanonicalByScanOnly(value) ==
  LET value_lower == Strip(Lower(value))
      found == FirstPartialMatch(value_lower, 1)
  IN IF found # 0 THEN synonym_map[found].canonical ELSE ReplaceSpaces(value_lower)

\* The canonical tag of a value of a resolved field.
Canonical(value) ==
  LET value_lower == Strip(Lower(value))
      found == FirstPartialMatch(value_lower, 1)
  IN IF InSynonymMap(value_lower) THEN Mapping(value_lower).canonical
     ELSE IF found # 0 THEN synonym_map[found].canonical
     ELSE ReplaceSpaces(value_lower)

\* The queries handed to the normalizer: up to MaxFields items with
\* distinct keys, a value being a text or None.  A key of a category comes
\* in several spellings; the size comes under either of its keys.
MaxFields == 2

CategoryKeyInputs ==
  {<<"m", "a", "t", "e", "r", "i", "a", "l">>,
   <<"b", "o", "d", "y", "M", "a", "t", "e", "r", "i", "a", "l">>,
   <<"M", "a", "t", "e", "r", "i", "a", "l">>,
   <<"s", "e", "a", "t", "M", "a", "t", "e", "r", "i", "a", "l">>,
   <<"v", "a", "l", "v", "e", "T", "y", "p", "e">>,
   <<"p", "r", "e", "s", "s", "u", "r", "e", "R", "a", "t", "i", "n", "g">>}

CategoryValues ==
  {None,
   <<"S", "S">>,
   <<"t", "e", "f", "l", "o", "n">>,
   <<"B", "r", "a", "s", "s">>,
   <<"F", "o", "r", "g", "e", "d", " ", "S", "t", "a", "i", "n", "l", "e", "s", "s", " ", "S", "t", "e", "e", "l">>,
   <<"C", "l", "a", "s", "s", " ", "1", "5", "0">>,
   <<" ", "L", "u", "g", " ">>,
   <<"G", "a", "t", "e", " ", "V", "a", "l", "v", "e">>,
   <<"F", "o", "r", "g", "e", "d", " ", "B", "r", "a", "s", "s">>}

SizeKeyInputs == {<<"s", "i", "z", "e">>, <<"s", "i", "z", "e", "_", "n", "o", "m", "i", "n", "a", "l">>}

SizeValues == {None, <<"6">>}

SpecValues == CategoryValues \union SizeValues

SpecItems == (CategoryKeyInputs \X CategoryValues) \union (SizeKeyInputs \X SizeValues)

SpecsInputs ==
  UNION {{s \in [1..n -> SpecItems] : \A i, j \in 1..n : i # j => s[i][1] # s[j][1]} : n \in 0..MaxFields}

\* Canonical of every value the queries carry, computed once.
Canonicals == [value \in SpecValues \ {None} |-> Canonical(value)] @@ <<>>

\* sf.lower() of every sf in synonym_fields, computed once.
LoweredFields == {SubSeq(Lower(synonym_fields[i]), 1, Len(synonym_fields[i])) : i \in 1..Len(synonym_fields)}

\* The test that takes every key for an allow-listed one.
ShouldNormalizeAnyKey(key) == TRUE

\* any(key.lower() == sf.lower() for sf in synonym_fields)
should_normalize(key) == SubSeq(Lower(key), 1, Len(key)) \in LoweredFields

\* "Map to correct field name": the key the canonical tag is stored under.
FieldName(key) ==
  IF InSeq(key, <<<<"m", "a", "t", "e", "r", "i", "a", "l">>, <<"b", "o", "d", "y", "M", "a", "t", "e", "r", "i", "a", "l">>, <<"b", "o", "d", "y", "_", "m", "a", "t", "e", "r", "i", "a", "l">>>>) THEN <<"m", "a", "t", "e", "r", "i", "a", "l">>
  ELSE IF InSeq(key, <<<<"s", "e", "a", "t", "M", "a", "t", "e", "r", "i", "a", "l">>, <<"s", "e", "a", "t", "_", "m", "a", "t", "e", "r", "i", "a", "l">>, <<"s", "e", "a", "t">>>>) THEN <<"s", "e", "a", "t", "M", "a", "t", "e", "r", "i", "a", "l">>
  ELSE IF InSeq(key, <<<<"e", "n", "d", "C", "o", "n", "n", "e", "c", "t", "i", "o", "n">>, <<"c", "o", "n", "n", "e", "c", "t", "i", "o", "n">>, <<"e", "n", "d", "_", "c", "o", "n", "n", "e", "c", "t", "i", "o", "n">>>>) THEN <<"e", "n", "d", "C", "o", "n", "n", "e", "c", "t", "i", "o", "n">>
  ELSE IF InSeq(key, <<<<"v", "a", "l", "v", "e", "T", "y", "p", "e">>, <<"v", "a", "l", "v", "e", "_", "t", "y", "p", "e">>, <<"t", "y", "p", "e">>>>) THEN <<"v", "a", "l", "v", "e", "T", "y", "p", "e">>
  ELSE IF InSeq(key, <<<<"p", "r", "e", "s", "s", "u", "r", "e", "R", "a", "t", "i", "n", "g">>, <<"p", "r", "e", "s", "s", "u", "r", "e">>, <<"p", "r", "e", "s", "s", "u", "r", "e", "_", "r", "a", "t", "i", "n", "g">>>>) THEN <<"p", "r", "e", "s", "s", "u", "r", "e", "R", "a", "t", "i", "n", "g">>
  ELSE key

\* One iteration of the loop over specs.items().
NormalizeItem(normalized, key, value) ==
  IF value = None THEN normalized
  ELSE IF should_normalize(key) THEN SetItem(normalized, FieldName(key), Canonicals[value])
  ELSE SetItem(normalized, key, value)

RECURSIVE NormalizeFrom(_, _, _)
NormalizeFrom(specs, i, normalized) ==
  IF i > Len(specs) THEN normalized
  ELSE NormalizeFrom(specs, i + 1, NormalizeItem(normalized, specs[i][1], specs[i][2]))

normalize_specs(specs) == NormalizeFrom(specs, 1, <<>>)

\* What search_jsonb_tiered and calculate_score read of the normalizer's
\* output: normalized_specs.get(...) of the six keys they know.
ReadQuery(normalized) ==
  Query(Item(normalized, <<"s", "i", "z", "e">>), Item(normalized, <<"v", "a", "l", "v", "e", "T", "y", "p", "e">>),
        Item(normalized, <<"p", "r", "e", "s", "s", "u", "r", "e", "R", "a", "t", "i", "n", "g">>), Item(normalized, <<"m", "a", "t", "e", "r", "i", "a", "l">>),
        Item(normalized, <<"s", "e", "a", "t", "M", "a", "t", "e", "r", "i", "a", "l">>), Item(normalized, <<"e", "n", "d", "C", "o", "n", "n", "e", "c", "t", "i", "o", "n">>))

\* One call of normalize_specs.
NormalizeSpecs(specs) ==
  /\ call = NoCall
  /\ call' = [op |-> "normalize_specs", specs |-> specs, ret |-> normalize_specs(specs)]
  /\ UNCHANGED <<tablesExist, store, valve_specs,
               threads, cursors, redis, progress_file, fetched>>

\* The material grouping of generate_compatibility_suggestions
\* (src/database/analyze_distinct_values.py): the tests of the if/elif
\* chain on a lower-cased material, one per branch.
IsStainless(m) == Contains(m, <<"s", "t", "a", "i", "n", "l", "e", "s", "s">>) \/ InSeq(m, <<<<"s", "s">>, <<"s", ".", "s", ".">>>>) \/ Contains(m, <<"3", "1", "6">>) \/ Contains(m, <<"3", "0", "4">>)

IsCarbonSteel(m) == Contains(m, <<"c", "a", "r", "b", "o", "n">>) /\ Contains(m, <<"s", "t", "e", "e", "l">>)

IsForgedSteel(m) == Contains(m, <<"f", "o", "r", "g", "e", "d">>) /\ Contains(m, <<"s", "t", "e", "e", "l">>)

IsCarbonAbbreviation(m) == InSeq(m, <<<<"c", "s">>, <<"c", ".", "s", ".">>>>)

IsBrass(m) == Contains(m, <<"b", "r", "a", "s", "s">>) /\ ~Contains(m, <<"s", "t", "a", "i", "n", "l", "e", "s", "s">>)

IsBronze(m) == Contains(m, <<"b", "r", "o", "n", "z", "e">>)

IsCastIron(m) == (Contains(m, <<"c", "a", "s", "t", " ", "i", "r", "o", "n">>) \/ Contains(m, <<"d", "u", "c", "t", "i", "l", "e", " ", "i", "r", "o", "n">>)) /\ ~Contains(m, <<"s", "t", "e", "e", "l">>)

IsPlastic(m) == Contains(m, <<"p", "v", "c">>) \/ Contains(m, <<"c", "p", "v", "c">>)

IsAluminum(m) == Contains(m, <<"a", "l", "u", "m", "i", "n", "u", "m">>) \/ Contains(m, <<"a", "l", "u", "m", "i", "n", "i", "u", "m">>)

\* The group key of one material of the body_material column: the value is
\* lower-cased when the list is built and again in the loop; None is "no
\* group".
MaterialGroup(material) ==
  LET material_lower == Lower(Lower(material))
  IN IF IsStainless(material_lower) THEN <<"s", "t", "a", "i", "n", "l", "e", "s", "s", "_", "s", "t", "e", "e", "l">>
     ELSE IF IsCarbonSteel(material_lower) THEN <<"c", "a", "r", "b", "o", "n", "_", "s", "t", "e", "e", "l">>
     ELSE IF IsForgedSteel(material_lower) THEN <<"c", "a", "r", "b", "o", "n", "_", "s", "t", "e", "e", "l">>
     ELSE IF IsCarbonAbbreviation(material_lower) THEN <<"c", "a", "r", "b", "o", "n", "_", "s", "t", "e", "e", "l">>
     ELSE IF IsBrass(material_lower) THEN <<"b", "r", "a", "s", "s">>
     ELSE IF IsBronze(material_lower) THEN <<"b", "r", "o", "n", "z", "e">>
     ELSE IF IsCastIron(material_lower) THEN <<"c", "a", "s", "t", "_", "i", "r", "o", "n">>
     ELSE IF IsPlastic(material_lower) THEN <<"p", "l", "a", "s", "t", "i", "c">>
     ELSE IF IsAluminum(material_lower) THEN <<"a", "l", "u", "m", "i", "n", "u", "m">>
     ELSE None

\* The distinct values of the body_material column that are grouped.
MaterialInputs ==
  {<<"F", "o", "r", "g", "e", "d", " ", "S", "t", "a", "i", "n", "l", "e", "s", "s", " ", "S", "t", "e", "e", "l">>,
   <<"C", "a", "r", "b", "o", "n", " ", "S", "t", "e", "e", "l">>,
   <<"F", "o", "r", "g", "e", "d", " ", "C", "a", "r", "b", "o", "n", " ", "S", "t", "e", "e", "l">>,
   <<"F", "o", "r", "g", "e", "d", " ", "S", "t", "e", "e", "l">>,
   <<"C", "S">>,
   <<"S", "S">>,
   <<"3", "1", "6", "S", "S">>,
   <<"B", "r", "a", "s", "s">>,
   <<"F", "o", "r", "g", "e", "d", " ", "B", "r", "a", "s", "s">>,
   <<"A", "l", "u", "m", "i", "n", "u", "m", " ", "B", "r", "o", "n", "z", "e">>,
   <<"B", "r", "o", "n", "z", "e">>,
   <<"C", "a", "s", "t", " ", "I", "r", "o", "n">>,
   <<"D", "u", "c", "t", "i", "l", "e", " ", "I", "r", "o", "n">>,
   <<"D", "u", "c", "t", "i", "l", "e", " ", "I", "r", "o", "n", " ", "/", " ", "S", "t", "e", "e", "l", " ", "/", " ", "P", "V", "C">>,
   <<"C", "P", "V", "C">>,
   <<"A", "l", "u", "m", "i", "n", "u", "m">>,
   <<"T", "i", "t", "a", "n", "i", "u", "m">>}

\* The grouping of one distinct material.
GroupMaterial(material) ==
  /\ call = NoCall
  /\ call' = [op |-> "generate_compatibility_suggestions", material |-> material,
              key |-> MaterialGroup(material)]
  /\ UNCHANGED <<tablesExist, store, valve_specs,
               threads, cursors, redis, progress_file, fetched>>

NextSynonym ==
  \/ call = NoCall /\ \E specs \in SpecsInputs : NormalizeSpecs(specs)
  \/ \E material \in MaterialInputs : GroupMaterial(material)
  \/ Return

SpecSynonym == Init /\ [][NextSynonym]_vars

-----------------------------------------------------------------------------
(* Compatibility catalog (src/database/comprehensive_compatibility_mapping  *)
(* .py) and the search over the single table (src/database/search_specs     *)
(* .py).  A catalog is a dict: the sequence of its <<key, value>> items.    *)

MATERIAL_COMPATIBILITY ==
  << <<<<"c", "a", "r", "b", "o", "n", " ", "s", "t", "e", "e", "l">>,
       <<<<"C", "a", "r", "b", "o", "n", " ", "S", "t", "e", "e", "l">>,
         <<"F", "o", "r", "g", "e", "d", " ", "S", "t", "e", "e", "l">>,
         <<"F", "o", "r", "g", "e", "d", " ", "C", "a", "r", "b", "o", "n",
         " ", "S", "t", "e", "e", "l">>,
         <<"C", "S">>,
         <<"C", ".", "S", ".">>,
         <<"C", "a", "r", "b", "o", "n", " ", "S", "t", "e", "e", "l", " ",
         "A", "S", "T", "M">>,
         <<"A", "S", "T", "M", " ", "A", "1", "0", "5", " ", "C", "a", "r",
         "b", "o", "n", " ", "S", "t", "e", "e", "l">>>>>>,
     <<<<"c", "s">>,
       <<<<"C", "a", "r", "b", "o", "n", " ", "S", "t", "e", "e", "l">>,
         <<"F", "o", "r", "g", "e", "d", " ", "S", "t", "e", "e", "l">>,
         <<"F", "o", "r", "g", "e", "d", " ", "C", "a", "r", "b", "o", "n",
         " ", "S", "t", "e", "e", "l">>,
         <<"C", "S">>,
         <<"C", ".", "S", ".">>>>>>,
     <<<<"c", ".", "s", ".">>,
       <<<<"C", "a", "r", "b", "o", "n", " ", "S", "t", "e", "e", "l">>,
         <<"F", "o", "r", "g", "e", "d", " ", "S", "t", "e", "e", "l">>,
         <<"F", "o", "r", "g", "e", "d", " ", "C", "a", "r", "b", "o", "n",
         " ", "S", "t", "e", "e", "l">>,
         <<"C", "S">>,
         <<"C", ".", "S", ".">>>>>>,
     <<<<"f", "o", "r", "g", "e", "d", " ", "s", "t", "e", "e", "l">>,
       <<<<"F", "o", "r", "g", "e", "d", " ", "S", "t", "e", "e", "l">>,
         <<"F", "o", "r", "g", "e", "d", " ", "C", "a", "r", "b", "o", "n",
         " ", "S", "t", "e", "e", "l">>,
         <<"C", "a", "r", "b", "o", "n", " ", "S", "t", "e", "e", "l">>>>>>,
     <<<<"f", "o", "r", "g", "e", "d", " ", "c", "a", "r", "b", "o", "n",
       " ", "s", "t", "e", "e", "l">>,
       <<<<"F", "o", "r", "g", "e", "d", " ", "C", "a", "r", "b", "o", "n",
         " ", "S", "t", "e", "e", "l">>,
         <<"F", "o", "r", "g", "e", "d", " ", "S", "t", "e", "e", "l">>,
         <<"C", "a", "r", "b", "o", "n", " ", "S", "t", "e", "e", "l">>>>>>,
     <<<<"s", "t", "a", "i", "n", "l", "e", "s", "s", " ", "s", "t", "e",
       "e", "l">>,
       <<<<"S", "t", "a", "i", "n", "l", "e", "s", "s", " ", "S", "t", "e",
         "e", "l">>,
         <<"S", "S">>,
         <<"S", ".", "S", ".">>,
         <<"3", "1", "6", "S", "S">>,
         <<"3", "0", "4", "S", "S">>,
         <<"3", "1", "6", " ", "S", "t", "a", "i", "n", "l", "e", "s", "s",
         " ", "S", "t", "e", "e", "l">>,
         <<"3", "0", "4", " ", "S", "t", "a", "i", "n", "l", "e", "s", "s",
         " ", "S", "t", "e", "e", "l">>,
         <<"3", "1", "6", "L">>,
         <<"3", "1", "6", "L", " ", "S", "t", "e", "e", "l">>,
         <<"3", "0", "4">>,
         <<"3", "1", "6">>>>>>,
     <<<<"s", "s">>,
       <<<<"S", "t", "a", "i", "n", "l", "e", "s", "s", " ", "S", "t", "e",
         "e", "l">>,
         <<"S", "S">>,
         <<"S", ".", "S", ".">>,
         <<"3", "1", "6", "S", "S">>,
         <<"3", "0", "4", "S", "S">>>>>>,
     <<<<"s", ".", "s", ".">>,
       <<<<"S", "t", "a", "i", "n", "l", "e", "s", "s", " ", "S", "t", "e",
         "e", "l">>,
         <<"S", "S">>,
         <<"S", ".", "S", ".">>,
         <<"3", "1", "6", "S", "S">>,
         <<"3", "0", "4", "S", "S">>>>>>,
     <<<<"3", "1", "6">>,
       <<<<"3", "1", "6", " ", "S", "t", "a", "i", "n", "l", "e", "s", "s",
         " ", "S", "t", "e", "e", "l">>,
         <<"3", "1", "6", "S", "S">>,
         <<"3", "1", "6", "L">>,
         <<"3", "1", "6", "L", " ", "S", "t", "e", "e", "l">>,
         <<"S", "t", "a", "i", "n", "l", "e", "s", "s", " ", "S", "t", "e",
         "e", "l">>>>>>,
     <<<<"3", "0", "4">>,
       <<<<"3", "0", "4", " ", "S", "t", "a", "i", "n", "l", "e", "s", "s",
         " ", "S", "t", "e", "e", "l">>,
         <<"3", "0", "4", "S", "S">>,
         <<"S", "t", "a", "i", "n", "l", "e", "s", "s", " ", "S", "t", "e",
         "e", "l">>>>>>,
     <<<<"3", "1", "6", "s", "s">>,
       <<<<"3", "1", "6", " ", "S", "t", "a", "i", "n", "l", "e", "s", "s",
         " ", "S", "t", "e", "e", "l">>,
         <<"3", "1", "6", "S", "S">>,
         <<"S", "t", "a", "i", "n", "l", "e", "s", "s", " ", "S", "t", "e",
         "e", "l">>>>>>,
     <<<<"3", "0", "4", "s", "s">>,
       <<<<"3", "0", "4", " ", "S", "t", "a", "i", "n", "l", "e", "s", "s",
         " ", "S", "t", "e", "e", "l">>,
         <<"3", "0", "4", "S", "S">>,
         <<"S", "t", "a", "i", "n", "l", "e", "s", "s", " ", "S", "t", "e",
         "e", "l">>>>>>,
     <<<<"3", "1", "6", "l">>,
       <<<<"3", "1", "6", "L", " ", "S", "t", "a", "i", "n", "l", "e", "s",
         "s", " ", "S", "t", "e", "e", "l">>,
         <<"3", "1", "6", "L">>,
         <<"3", "1", "6", "L", " ", "S", "t", "e", "e", "l">>,
         <<"S", "t", "a", "i", "n", "l", "e", "s", "s", " ", "S", "t", "e",
         "e", "l">>>>>>,
     <<<<"b", "r", "a", "s", "s">>,
       <<<<"B", "r", "a", "s", "s">>,
         <<"B", "R">>,
         <<"B", "r", "a", "s", "s", " ", "C", "3", "7", "7", "0", "0">>,
         <<"B", "r", "a", "s", "s", " ", "-", " ", "C", "3", "7", "7", "0",
         "0">>,
         <<"B", "r", "a", "s", "s", " ", "C", "3", "5", "3", "3", "0">>,
         <<"B", "r", "a", "s", "s", " ", "C", "W", "6", "1", "7", "N">>,
         <<"B", "r", "a", "s", "s", " ", "-", " ", "C", "W", "6", "1", "7",
         "N">>,
         <<"3", "6", "0", " ", "B", "r", "a", "s", "s">>,
         <<"L", "e", "a", "d", "-", "F", "r", "e", "e", " ", "B", "r", "a",
         "s", "s">>,
         <<"L", "e", "a", "d", " ", "F", "r", "e", "e", " ", "B", "r", "a",
         "s", "s">>,
         <<"L", "e", "a", "d", "-", "F", "r", "e", "e", " ", "B", "r", "a",
         "s", "s", " ", "-", " ", "C", "4", "6", "5", "0", "0">>,
         <<"L", "e", "a", "d", "-", "F", "r", "e", "e", " ", "B", "r", "a",
         "s", "s", " ", "-", " ", "C", "2", "7", "4", "5", "3">>,
         <<"D", "e", "z", "i", "n", "c", "i", "f", "i", "c", "a", "t", "i",
         "o", "n", " ", "R", "e", "s", "i", "s", "t", "a", "n", "t", " ",
         "L", "e", "a", "d", "-", "F", "r", "e", "e", " ", "B", "r", "a",
         "s", "s">>,
         <<"B", "r", "a", "s", "s", " ", "/", "N", "i", "c", "k", "e", "l",
         " ", "P", "l", "a", "t", "e", "d">>,
         <<"2", "D", " ", "S", "e", "r", "i", "e", "s", " ", "V", "a", "l",
         "v", "e", " ", "B", "o", "d", "y", ":", " ", "B", "r", "a", "s",
         "s">>,
         <<"2", "V", " ", "S", "e", "r", "i", "e", "s", " ", "V", "a", "l",
         "v", "e", " ", "B", "o", "d", "y", ":", " ", "B", "r", "a", "s",
         "s">>>>>>,
     <<<<"b", "r">>,
       <<<<"B", "r", "a", "s", "s">>,
         <<"B", "R">>>>>>,
     <<<<"l", "e", "a", "d", "-", "f", "r", "e", "e", " ", "b", "r", "a",
       "s", "s">>,
       <<<<"L", "e", "a", "d", "-", "F", "r", "e", "e", " ", "B", "r", "a",
         "s", "s">>,
         <<"L", "e", "a", "d", " ", "F", "r", "e", "e", " ", "B", "r", "a",
         "s", "s">>,
         <<"B", "r", "a", "s", "s">>>>>>,
     <<<<"b", "r", "o", "n", "z", "e">>,
       <<<<"B", "r", "o", "n", "z", "e">>,
         <<"B", "R", "Z">>,
         <<"B", "r", "o", "n", "z", "e", " ", "C", "8", "4", "4", "0",
         "0">>,
         <<"B", "r", "o", "n", "z", "e", " ", "(", "C", "8", "4", "4", "0",
         "0", ")">>,
         <<"B", "5", "8", "4", " ", "B", "r", "o", "n", "z", "e">>,
         <<"B", "5", "8", "4", " ", "C", "8", "4", "4", "0", "0", " ", "B",
         "r", "o", "n", "z", "e", " ", "A", "l", "l", "o", "y">>,
         <<"B", "5", "8", "4", "-", "C", "8", "4", "4", "0", "0", " ", "B",
         "r", "o", "n", "z", "e">>,
         <<"C", "a", "s", "t", " ", "B", "r", "o", "n", "z", "e", " ", "-",
         " ", "C", "8", "9", "8", "4", "4">>,
         <<"L", "e", "a", "d", "-", "F", "r", "e", "e", " ", "B", "r", "o",
         "n", "z", "e">>,
         <<"L", "e", "a", "d", " ", "F", "r", "e", "e", " ", "B", "r", "o",
         "n", "z", "e">>,
         <<"C", "8", "9", "8", "3", "6", " ", "L", "e", "a", "d", "-", "F",
         "r", "e", "e", " ", "B", "r", "o", "n", "z", "e">>,
         <<"L", "e", "a", "d", "-", "F", "r", "e", "e", " ", "B", "r", "o",
         "n", "z", "e", " ", "-", " ", "C", "8", "9", "8", "3", "6">>>>>>,
     <<<<"b", "r", "z">>,
       <<<<"B", "r", "o", "n", "z", "e">>,
         <<"B", "R", "Z">>>>>>,
     <<<<"l", "e", "a", "d", "-", "f", "r", "e", "e", " ", "b", "r", "o",
       "n", "z", "e">>,
       <<<<"L", "e", "a", "d", "-", "F", "r", "e", "e", " ", "B", "r", "o",
         "n", "z", "e">>,
         <<"L", "e", "a", "d", " ", "F", "r", "e", "e", " ", "B", "r", "o",
         "n", "z", "e">>,
         <<"B", "r", "o", "n", "z", "e">>>>>>,
     <<<<"c", "a", "s", "t", " ", "i", "r", "o", "n">>,
       <<<<"C", "a", "s", "t", " ", "I", "r", "o", "n">>,
         <<"C", "I">>,
         <<"C", "a", "s", "t", " ", "I", "r", "o", "n", " ", "(", "A", "S",
         "T", "M", " ", "A", "1", "2", "6", " ", "C", "l", " ", "B", ")">>,
         <<"C", "a", "s", "t", " ", "I", "r", "o", "n", " ", "-", " ", "A",
         "S", "T", "M", " ", "A", "1", "2", "6", " ", "B">>,
         <<"C", "a", "s", "t", " ", "I", "r", "o", "n", " ", "B", "o", "d",
         "y", " ", "A", "S", "T", "M", " ", "A", "1", "2", "6">>,
         <<"C", "a", "s", "t", " ", "I", "r", "o", "n", ",", " ", "E", "p",
         "o", "x", "y", " ", "C", "o", "a", "t", "e", "d">>,
         <<"E", "p", "o", "x", "y", " ", "C", "o", "a", "t", "e", "d", " ",
         "C", "a", "s", "t", " ", "I", "r", "o", "n">>>>>>,
     <<<<"c", "i">>,
       <<<<"C", "a", "s", "t", " ", "I", "r", "o", "n">>,
         <<"C", "I">>>>>>,
     <<<<"d", "u", "c", "t", "i", "l", "e", " ", "i", "r", "o", "n">>,
       <<<<"D", "u", "c", "t", "i", "l", "e", " ", "I", "r", "o", "n">>,
         <<"D", "u", "c", "t", "i", "l", "e", " ", "I", "r", "o", "n", " ",
         "-", " ", "E", "p", "o", "x", "y", " ", "C", "o", "a", "t", "e",
         "d">>,
         <<"D", "u", "c", "t", "i", "l", "e", " ", "I", "r", "o", "n", " ",
         "A", "S", "T", "M", " ", "A", "5", "3", "6">>,
         <<"D", "u", "c", "t", "i", "l", "e", " ", "I", "r", "o", "n", " ",
         "B", "o", "d", "y", " ", "w", "i", "t", "h", " ", "E", "p", "o",
         "x", "y", " ", "C", "o", "a", "t", "i", "n", "g">>,
         <<"D", "u", "c", "t", "i", "l", "e", " ", "I", "r", "o", "n", " ",
         "w", "i", "t", "h", " ", "E", "p", "o", "x", "y", " ", "C", "o",
         "a", "t", "i", "n", "g">>,
         <<"E", "p", "o", "x", "y", " ", "C", "o", "a", "t", "e", "d", " ",
         "D", "u", "c", "t", "i", "l", "e", " ", "I", "r", "o", "n">>>>>>,
     <<<<"e", "p", "o", "x", "y", " ", "c", "o", "a", "t", "e", "d", " ",
       "d", "u", "c", "t", "i", "l", "e", " ", "i", "r", "o", "n">>,
       <<<<"E", "p", "o", "x", "y", " ", "C", "o", "a", "t", "e", "d", " ",
         "D", "u", "c", "t", "i", "l", "e", " ", "I", "r", "o", "n">>,
         <<"D", "u", "c", "t", "i", "l", "e", " ", "I", "r", "o", "n", " ",
         "-", " ", "E", "p", "o", "x", "y", " ", "C", "o", "a", "t", "e",
         "d">>,
         <<"D", "u", "c", "t", "i", "l", "e", " ", "I", "r", "o", "n", " ",
         "w", "i", "t", "h", " ", "E", "p", "o", "x", "y", " ", "C", "o",
         "a", "t", "i", "n", "g">>,
         <<"D", "u", "c", "t", "i", "l", "e", " ", "I", "r", "o", "n">>>>>>,
     <<<<"p", "v", "c">>,
       <<<<"P", "V", "C">>,
         <<"P", "V", "C", " ", "B", "o", "d", "y">>,
         <<"P", "V", "C", "-", "A", "c", "r", "y", "l", "i", "c">>,
         <<"U", "P", "V", "C">>>>>>,
     <<<<"c", "p", "v", "c">>,
       <<<<"C", "P", "V", "C">>,
         <<"C", "P", "V", "C", " ", "B", "o", "d", "y">>>>>>,
     <<<<"p", "l", "a", "s", "t", "i", "c">>,
       <<<<"P", "V", "C">>,
         <<"C", "P", "V", "C">>,
         <<"P", "V", "C", " ", "B", "o", "d", "y">>,
         <<"C", "P", "V", "C", " ", "B", "o", "d", "y">>,
         <<"U", "P", "V", "C">>>>>>,
     <<<<"a", "l", "u", "m", "i", "n", "u", "m">>,
       <<<<"A", "l", "u", "m", "i", "n", "u", "m">>,
         <<"A", "n", "o", "d", "i", "z", "e", "d", " ", "A", "l", "u", "m",
         "i", "n", "u", "m">>,
         <<"A", "l", "u", "m", "i", "n", "u", "m", " ", "(", "A", "n", "o",
         "d", "i", "z", "e", "d", ")">>,
         <<"E", "x", "t", "r", "u", "d", "e", "d", " ", "A", "l", "u", "m",
         "i", "n", "u", "m">>,
         <<"D", "i", "e", "c", "a", "s", "t", " ", "A", "l", "u", "m", "i",
         "n", "u", "m", " ", "A", "l", "l", "o", "y", ",", " ", "I", "r",
         "r", "i", "d", "i", "t", "e", " ", "a", "n", "d", " ", "B", "a",
         "k", "e", "d", " ", "E", "p", "o", "x", "y", " ", "F", "i", "n",
         "i", "s", "h">>>>>>,
     <<<<"a", "l", "u", "m", "i", "n", "i", "u", "m">>,
       <<<<"A", "l", "u", "m", "i", "n", "u", "m">>,
         <<"A", "l", "u", "m", "i", "n", "i", "u", "m">>,
         <<"A", "n", "o", "d", "i", "z", "e", "d", " ", "A", "l", "u", "m",
         "i", "n", "u", "m">>>>>> >>

END_CONNECTION_COMPATIBILITY ==
  << <<<<"s", "o", "c", "k", "e", "t", "-", "w", "e", "l", "d">>,
       <<<<"S", "o", "c", "k", "e", "t", " ", "W", "e", "l", "d", "e",
         "d">>,
         <<"S", "o", "c", "k", "e", "t", "-", "W", "e", "l", "d">>,
         <<"S", "o", "c", "k", "e", "t", " ", "W", "e", "l", "d">>,
         <<"S", "W">>,
         <<"S", "W", "E">>,
         <<"S", "o", "c", "k", "e", "t">>,
         <<"S", "o", "c", "k", "e", "t", "-", "W", "e", "l", "d", " ", "E",
         "n", "d">>,
         <<"S", "o", "c", "k", "e", "t", " ", "W", "e", "l", "d", " ", "E",
         "n", "d">>>>>>,
     <<<<"s", "w">>,
       <<<<"S", "o", "c", "k", "e", "t", " ", "W", "e", "l", "d", "e",
         "d">>,
         <<"S", "o", "c", "k", "e", "t", "-", "W", "e", "l", "d">>,
         <<"S", "o", "c", "k", "e", "t", " ", "W", "e", "l", "d">>,
         <<"S", "W">>,
         <<"S", "W", "E">>>>>>,
     <<<<"s", "w", "e">>,
       <<<<"S", "o", "c", "k", "e", "t", " ", "W", "e", "l", "d", "e",
         "d">>,
         <<"S", "o", "c", "k", "e", "t", "-", "W", "e", "l", "d">>,
         <<"S", "o", "c", "k", "e", "t", " ", "W", "e", "l", "d">>,
         <<"S", "W">>,
         <<"S", "W", "E">>>>>>,
     <<<<"s", "o", "c", "k", "e", "t", " ", "w", "e", "l", "d">>,
       <<<<"S", "o", "c", "k", "e", "t", " ", "W", "e", "l", "d", "e",
         "d">>,
         <<"S", "o", "c", "k", "e", "t", "-", "W", "e", "l", "d">>,
         <<"S", "o", "c", "k", "e", "t", " ", "W", "e", "l", "d">>,
         <<"S", "W">>,
         <<"S", "W", "E">>>>>>,
     <<<<"s", "o", "c", "k", "e", "t", " ", "w", "e", "l", "d", "e", "d">>,
       <<<<"S", "o", "c", "k", "e", "t", " ", "W", "e", "l", "d", "e",
         "d">>,
         <<"S", "o", "c", "k", "e", "t", "-", "W", "e", "l", "d">>,
         <<"S", "o", "c", "k", "e", "t", " ", "W", "e", "l", "d">>,
         <<"S", "W">>,
         <<"S", "W", "E">>>>>>,
     <<<<"t", "h", "r", "e", "a", "d", "e", "d">>,
       <<<<"S", "c", "r", "e", "w", "e", "d", "/", "T", "h", "r", "e", "a",
         "d", "e", "d">>,
         <<"T", "h", "r", "e", "a", "d", "e", "d">>,
         <<"T", "h", "r", "e", "a", "d">>,
         <<"S", "c", "r", "e", "w", "e", "d">>,
         <<"T", "H", "R">>,
         <<"N", "P", "T">>,
         <<"N", "P", "T", " ", "t", "o", " ", "A", "S", "M", "E", " ", "B",
         "1", ".", "2", "0", ".", "1">>,
         <<"F", "e", "m", "a", "l", "e", " ", "N", "P", "T">>,
         <<"F", "N", "P", "T">>,
         <<"M", "a", "l", "e", " ", "N", "P", "T">>,
         <<"M", "N", "P", "T">>,
         <<"F", "N", "P", "T", " ", "x", " ", "M", "N", "P", "T">>,
         <<"M", "N", "P", "T", " ", "x", " ", "F", "N", "P", "T">>,
         <<"C", "l", "a", "m", "p", " ", "x", " ", "F", "e", "m", "a", "l",
         "e", " ", "N", "P", "T">>,
         <<"C", "l", "a", "m", "p", " ", "x", " ", "M", "a", "l", "e", " ",
         "N", "P", "T">>,
         <<"C", "l", "a", "m", "p", " ", "x", " ", "M", "N", "P", "T">>,
         <<"N", "P", "T", " ", "a", "n", "d", " ", "S", "o", "c", "k", "e",
         "t", " ", "E", "n", "d", "s", " ", "I", "n", "c", "l", "u", "d",
         "e", "d">>>>>>,
     <<<<"n", "p", "t">>,
       <<<<"N", "P", "T">>,
         <<"F", "e", "m", "a", "l", "e", " ", "N", "P", "T">>,
         <<"F", "N", "P", "T">>,
         <<"M", "a", "l", "e", " ", "N", "P", "T">>,
         <<"M", "N", "P", "T">>,
         <<"S", "c", "r", "e", "w", "e", "d", "/", "T", "h", "r", "e", "a",
         "d", "e", "d">>,
         <<"F", "N", "P", "T", " ", "x", " ", "M", "N", "P", "T">>,
         <<"M", "N", "P", "T", " ", "x", " ", "F", "N", "P", "T">>,
         <<"N", "P", "T", " ", "t", "o", " ", "A", "S", "M", "E", " ", "B",
         "1", ".", "2", "0", ".", "1">>,
         <<"N", "P", "T", " ", "a", "n", "d", " ", "S", "o", "c", "k", "e",
         "t", " ", "E", "n", "d", "s", " ", "I", "n", "c", "l", "u", "d",
         "e", "d">>,
         <<"C", "l", "a", "m", "p", " ", "x", " ", "F", "e", "m", "a", "l",
         "e", " ", "N", "P", "T">>,
         <<"C", "l", "a", "m", "p", " ", "x", " ", "M", "a", "l", "e", " ",
         "N", "P", "T">>>>>>,
     <<<<"s", "c", "r", "e", "w", "e", "d">>,
       <<<<"S", "c", "r", "e", "w", "e", "d", "/", "T", "h", "r", "e", "a",
         "d", "e", "d">>,
         <<"T", "h", "r", "e", "a", "d", "e", "d">>,
         <<"S", "c", "r", "e", "w", "e", "d">>,
         <<"N", "P", "T">>>>>>,
     <<<<"t", "h", "r">>,
       <<<<"T", "h", "r", "e", "a", "d", "e", "d">>,
         <<"S", "c", "r", "e", "w", "e", "d", "/", "T", "h", "r", "e", "a",
         "d", "e", "d">>,
         <<"S", "c", "r", "e", "w", "e", "d">>,
         <<"T", "H", "R">>>>>>,
     <<<<"f", "l", "a", "n", "g", "e", "d">>,
       <<<<"F", "l", "a", "n", "g", "e", "d">>,
         <<"F", "l", "a", "n", "g", "e">>,
         <<"F", "L", "G">>,
         <<"1", "5", "0", "#", " ", "F", "l", "a", "n", "g", "e">>,
         <<"A", "N", "S", "I", " ", "F", "l", "a", "n", "g", "e">>,
         <<"S", "q", "u", "a", "r", "e", " ", "F", "l", "a", "n", "g", "e",
         " ", "x", " ", "S", "q", "u", "a", "r", "e", " ", "F", "l", "a",
         "n", "g", "e">>,
         <<"R", "F", " ", "F", "l", "a", "n", "g", "e">>,
         <<"F", "F", " ", "F", "l", "a", "n", "g", "e">>>>>>,
     <<<<"f", "l", "a", "n", "g", "e">>,
       <<<<"F", "l", "a", "n", "g", "e", "d">>,
         <<"F", "l", "a", "n", "g", "e">>,
         <<"F", "L", "G">>,
         <<"1", "5", "0", "#", " ", "F", "l", "a", "n", "g", "e">>,
         <<"A", "N", "S", "I", " ", "F", "l", "a", "n", "g", "e">>>>>>,
     <<<<"f", "l", "g">>,
       <<<<"F", "l", "a", "n", "g", "e", "d">>,
         <<"F", "l", "a", "n", "g", "e">>,
         <<"F", "L", "G">>>>>>,
     <<<<"1", "5", "0", "#">>,
       <<<<"1", "5", "0", "#", " ", "F", "l", "a", "n", "g", "e">>,
         <<"F", "l", "a", "n", "g", "e", "d">>,
         <<"F", "l", "a", "n", "g", "e">>>>>>,
     <<<<"b", "u", "t", "t", "-", "w", "e", "l", "d">>,
       <<<<"B", "u", "t", "t", " ", "W", "e", "l", "d", "e", "d">>,
         <<"B", "u", "t", "t", "-", "W", "e", "l", "d">>,
         <<"B", "u", "t", "t", " ", "W", "e", "l", "d">>,
         <<"B", "W", "E">>,
         <<"B", "u", "t", "t", "-", "W", "e", "l", "d", " ", "E", "n",
         "d">>,
         <<"B", "u", "t", "t", " ", "W", "e", "l", "d", " ", "E", "n",
         "d">>>>>>,
     <<<<"b", "w", "e">>,
       <<<<"B", "u", "t", "t", " ", "W", "e", "l", "d", "e", "d">>,
         <<"B", "u", "t", "t", "-", "W", "e", "l", "d">>,
         <<"B", "u", "t", "t", " ", "W", "e", "l", "d">>,
         <<"B", "W", "E">>>>>>,
     <<<<"b", "u", "t", "t", " ", "w", "e", "l", "d">>,
       <<<<"B", "u", "t", "t", " ", "W", "e", "l", "d", "e", "d">>,
         <<"B", "u", "t", "t", "-", "W", "e", "l", "d">>,
         <<"B", "u", "t", "t", " ", "W", "e", "l", "d">>,
         <<"B", "W", "E">>>>>>,
     <<<<"b", "u", "t", "t", " ", "w", "e", "l", "d", "e", "d">>,
       <<<<"B", "u", "t", "t", " ", "W", "e", "l", "d", "e", "d">>,
         <<"B", "u", "t", "t", "-", "W", "e", "l", "d">>,
         <<"B", "u", "t", "t", " ", "W", "e", "l", "d">>,
         <<"B", "W", "E">>>>>>,
     <<<<"c", "l", "a", "m", "p">>,
       <<<<"C", "l", "a", "m", "p">>,
         <<"T", "r", "i", "-", "C", "l", "a", "m", "p">>,
         <<"C", "l", "a", "m", "p", " ", "x", " ", "F", "e", "m", "a", "l",
         "e", " ", "N", "P", "T">>,
         <<"C", "l", "a", "m", "p", " ", "x", " ", "M", "a", "l", "e", " ",
         "N", "P", "T">>,
         <<"C", "l", "a", "m", "p", " ", "x", " ", "M", "N", "P", "T">>,
         <<"T", "r", "i", "-", "C", "l", "a", "m", "p", " ", "C", "o", "n",
         "n", "e", "c", "t", "i", "o", "n">>>>>>,
     <<<<"t", "r", "i", "-", "c", "l", "a", "m", "p">>,
       <<<<"T", "r", "i", "-", "C", "l", "a", "m", "p">>,
         <<"C", "l", "a", "m", "p">>,
         <<"T", "r", "i", "-", "C", "l", "a", "m", "p", " ", "C", "o", "n",
         "n", "e", "c", "t", "i", "o", "n">>>>>>,
     <<<<"s", "o", "l", "d", "e", "r">>,
       <<<<"S", "o", "l", "d", "e", "r">>,
         <<"S", "o", "l", "d", "e", "r", "e", "d">>>>>>,
     <<<<"p", "r", "e", "s", "s", " ", "c", "o", "n", "n", "e", "c", "t",
       "i", "o", "n">>,
       <<<<"P", "r", "e", "s", "s", " ", "C", "o", "n", "n", "e", "c", "t",
         "i", "o", "n">>,
         <<"P", "r", "e", "s", "s", "f", "i", "t">>,
         <<"P", "r", "e", "s", "s", " ", "F", "i", "t">>>>>>,
     <<<<"p", "r", "e", "s", "s", "f", "i", "t">>,
       <<<<"P", "r", "e", "s", "s", "f", "i", "t">>,
         <<"P", "r", "e", "s", "s", " ", "C", "o", "n", "n", "e", "c", "t",
         "i", "o", "n">>,
         <<"P", "r", "e", "s", "s", " ", "F", "i", "t">>>>>> >>

VALVE_TYPE_ABBREVIATIONS ==
  << <<<<"g", "t">>,
       <<"G", "a", "t", "e", " ", "V", "a", "l", "v", "e">>>>,
     <<<<"g", "l">>,
       <<"G", "l", "o", "b", "e", " ", "V", "a", "l", "v", "e">>>>,
     <<<<"b", "v">>,
       <<"B", "a", "l", "l", " ", "V", "a", "l", "v", "e">>>>,
     <<<<"b", "f", "v">>,
       <<"B", "u", "t", "t", "e", "r", "f", "l", "y", " ", "V", "a", "l",
       "v", "e">>>>,
     <<<<"c", "v">>,
       <<"C", "h", "e", "c", "k", " ", "V", "a", "l", "v", "e">>>>,
     <<<<"c", "h">>,
       <<"C", "h", "e", "c", "k", " ", "V", "a", "l", "v", "e">>>>,
     <<<<"n", "d", "l">>,
       <<"N", "e", "e", "d", "l", "e", " ", "V", "a", "l", "v", "e">>>>,
     <<<<"r", "v">>,
       <<"R", "e", "l", "i", "e", "f", " ", "V", "a", "l", "v", "e">>>>,
     <<<<"r", "o">>,
       <<"R", "e", "s", "t", "r", "i", "c", "t", "i", "o", "n", " ", "O",
       "r", "i", "f", "i", "c", "e">>>>,
     <<<<"s", "t", "t">>,
       <<"S", "t", "e", "a", "m", " ", "T", "r", "a", "p">>>>,
     <<<<"s", "t", "r">>,
       <<"S", "t", "r", "a", "i", "n", "e", "r">>>>,
     <<<<"t", "h", "w">>,
       <<"T", "h", "r", "e", "e", "-", "W", "a", "y", " ", "V", "a", "l",
       "v", "e">>>>,
     <<<<"2", "w">>,
       <<"2", "-", "W", "a", "y", " ", "B", "a", "l", "l", " ", "V", "a",
       "l", "v", "e">>>>,
     <<<<"3", "w">>,
       <<"3", "-", "W", "a", "y", " ", "B", "a", "l", "l", " ", "V", "a",
       "l", "v", "e">>>>,
     <<<<"2", "w", "n", "c">>,
       <<"2", "-", "W", "a", "y", " ", "N", "o", "r", "m", "a", "l", "l",
       "y", " ", "C", "l", "o", "s", "e", "d">>>>,
     <<<<"2", "w", "n", "o">>,
       <<"2", "-", "W", "a", "y", " ", "N", "o", "r", "m", "a", "l", "l",
       "y", " ", "O", "p", "e", "n">>>> >>

\* The table search_specs builds for the valve type: abbreviations first,
\* then common full names.
VALVE_TYPE_COMPATIBILITY ==
  << <<<<"g", "t">>,
       <<<<"G", "a", "t", "e", " ", "V", "a", "l", "v", "e">>,
         <<"G", "a", "t", "e", " ", "V", "a", "l", "v", "e", " ", "(", "N",
         "o", "n", "-", "R", "i", "s", "i", "n", "g", " ", "S", "t", "e",
         "m", ")">>,
         <<"G", "a", "t", "e", " ", "V", "a", "l", "v", "e", " ", "(", "R",
         "i", "s", "i", "n", "g", " ", "S", "t", "e", "m", ")">>>>>>,
     <<<<"g", "l">>,
       <<<<"G", "l", "o", "b", "e", " ", "V", "a", "l", "v", "e">>>>>>,
     <<<<"b", "v">>,
       <<<<"B", "a", "l", "l", " ", "V", "a", "l", "v", "e">>,
         <<"2", "-", "P", "i", "e", "c", "e", " ", "B", "a", "l", "l", " ",
         "V", "a", "l", "v", "e">>,
         <<"3", "-", "P", "i", "e", "c", "e", " ", "B", "a", "l", "l", " ",
         "V", "a", "l", "v", "e">>,
         <<"G", "a", "s", " ", "B", "a", "l", "l", " ", "V", "a", "l", "v",
         "e">>>>>>,
     <<<<"b", "f", "v">>,
       <<<<"B", "u", "t", "t", "e", "r", "f", "l", "y", " ", "V", "a", "l",
         "v", "e">>,
         <<"B", "u", "t", "t", "e", "r", "f", "l", "y", " ", "V", "a", "l",
         "v", "e", "s">>,
         <<"H", "i", "g", "h", " ", "P", "e", "r", "f", "o", "r", "m", "a",
         "n", "c", "e", " ", "B", "u", "t", "t", "e", "r", "f", "l", "y",
         " ", "V", "a", "l", "v", "e">>>>>>,
     <<<<"c", "v">>,
       <<<<"C", "h", "e", "c", "k", " ", "V", "a", "l", "v", "e">>,
         <<"S", "w", "i", "n", "g", " ", "C", "h", "e", "c", "k", " ", "V",
         "a", "l", "v", "e">>,
         <<"S", "i", "l", "e", "n", "t", " ", "C", "h", "e", "c", "k", " ",
         "V", "a", "l", "v", "e">>,
         <<"H", "o", "r", "i", "z", "o", "n", "t", "a", "l", " ", "S", "w",
         "i", "n", "g", " ", "C", "h", "e", "c", "k", " ", "V", "a", "l",
         "v", "e">>>>>>,
     <<<<"c", "h">>,
       <<<<"C", "h", "e", "c", "k", " ", "V", "a", "l", "v", "e">>,
         <<"S", "w", "i", "n", "g", " ", "C", "h", "e", "c", "k", " ", "V",
         "a", "l", "v", "e">>,
         <<"S", "i", "l", "e", "n", "t", " ", "C", "h", "e", "c", "k", " ",
         "V", "a", "l", "v", "e">>>>>>,
     <<<<"n", "d", "l">>,
       <<<<"N", "e", "e", "d", "l", "e", " ", "V", "a", "l", "v", "e">>>>>>,
     <<<<"r", "v">>,
       <<<<"R", "e", "l", "i", "e", "f", " ", "V", "a", "l", "v", "e">>>>>>,
     <<<<"r", "o">>,
       <<<<"R", "e", "s", "t", "r", "i", "c", "t", "i", "o", "n", " ", "O",
         "r", "i", "f", "i", "c", "e">>>>>>,
     <<<<"s", "t", "t">>,
       <<<<"S", "t", "e", "a", "m", " ", "T", "r", "a", "p">>>>>>,
     <<<<"s", "t", "r">>,
       <<<<"S", "t", "r", "a", "i", "n", "e", "r">>,
         <<"Y", "-", " ", "S", "t", "r", "a", "i", "n", "e", "r">>>>>>,
     <<<<"t", "h", "w">>,
       <<<<"3", "-", "W", "a", "y", " ", "B", "a", "l", "l", " ", "V", "a",
         "l", "v", "e">>,
         <<"3", "-", "W", "a", "y", " ", "D", "i", "v", "e", "r", "t", "e",
         "r", " ", "B", "a", "l", "l", " ", "V", "a", "l", "v", "e">>,
         <<"3", "-", "W", "a", "y", " ", "P", "n", "e", "u", "m", "a", "t",
         "i", "c", "a", "l", "l", "y", " ", "A", "c", "t", "u", "a", "t",
         "e", "d", " ", "B", "a", "l", "l", " ", "V", "a", "l", "v", "e">>,
         <<"3", "-", "W", "a", "y", " ", "E", "l", "e", "c", "t", "r", "i",
         "c", "a", "l", "l", "y", " ", "A", "c", "t", "u", "a", "t", "e",
         "d", " ", "B", "a", "l", "l", " ", "V", "a", "l", "v", "e">>>>>>,
     <<<<"2", "w">>,
       <<<<"2", "-", "W", "a", "y", " ", "B", "a", "l", "l", " ", "V", "a",
         "l", "v", "e">>,
         <<"2", "-", "W", "a", "y", " ", "P", "n", "e", "u", "m", "a", "t",
         "i", "c", "a", "l", "l", "y", " ", "A", "c", "t", "u", "a", "t",
         "e", "d", " ", "B", "a", "l", "l", " ", "V", "a", "l", "v", "e">>,
         <<"2", "-", "W", "a", "y", " ", "E", "l", "e", "c", "t", "r", "i",
         "c", "a", "l", "l", "y", " ", "A", "c", "t", "u", "a", "t", "e",
         "d", " ", "B", "a", "l", "l", " ", "V", "a", "l", "v", "e">>,
         <<"2", "-", "W", "a", "y", " ", "B", "a", "l", "l", " ", "V", "a",
         "l", "v", "e", " ", "(", "V", "-", "P", "o", "r", "t", ")">>>>>>,
     <<<<"3", "w">>,
       <<<<"3", "-", "W", "a", "y", " ", "B", "a", "l", "l", " ", "V", "a",
         "l", "v", "e">>,
         <<"3", "-", "W", "a", "y", " ", "P", "n", "e", "u", "m", "a", "t",
         "i", "c", "a", "l", "l", "y", " ", "A", "c", "t", "u", "a", "t",
         "e", "d", " ", "B", "a", "l", "l", " ", "V", "a", "l", "v", "e">>,
         <<"3", "-", "W", "a", "y", " ", "E", "l", "e", "c", "t", "r", "i",
         "c", "a", "l", "l", "y", " ", "A", "c", "t", "u", "a", "t", "e",
         "d", " ", "B", "a", "l", "l", " ", "V", "a", "l", "v", "e">>,
         <<"3", "-", "W", "a", "y", " ", "D", "i", "v", "e", "r", "t", "e",
         "r", " ", "B", "a", "l", "l", " ", "V", "a", "l", "v", "e">>>>>>,
     <<<<"2", "w", "n", "c">>,
       <<<<"2", "-", "W", "a", "y", " ", "N", "o", "r", "m", "a", "l", "l",
         "y", " ", "C", "l", "o", "s", "e", "d">>>>>>,
     <<<<"2", "w", "n", "o">>,
       <<<<"2", "-", "W", "a", "y", " ", "N", "o", "r", "m", "a", "l", "l",
         "y", " ", "O", "p", "e", "n">>>>>>,
     <<<<"b", "a", "l", "l", " ", "v", "a", "l", "v", "e">>,
       <<<<"B", "a", "l", "l", " ", "V", "a", "l", "v", "e">>,
         <<"2", "-", "P", "i", "e", "c", "e", " ", "B", "a", "l", "l", " ",
         "V", "a", "l", "v", "e">>,
         <<"3", "-", "P", "i", "e", "c", "e", " ", "B", "a", "l", "l", " ",
         "V", "a", "l", "v", "e">>,
         <<"G", "a", "s", " ", "B", "a", "l", "l", " ", "V", "a", "l", "v",
         "e">>,
         <<"2", "-", "W", "a", "y", " ", "B", "a", "l", "l", " ", "V", "a",
         "l", "v", "e">>,
         <<"3", "-", "W", "a", "y", " ", "B", "a", "l", "l", " ", "V", "a",
         "l", "v", "e">>>>>>,
     <<<<"g", "a", "t", "e", " ", "v", "a", "l", "v", "e">>,
       <<<<"G", "a", "t", "e", " ", "V", "a", "l", "v", "e">>,
         <<"G", "a", "t", "e", " ", "V", "a", "l", "v", "e", " ", "(", "N",
         "o", "n", "-", "R", "i", "s", "i", "n", "g", " ", "S", "t", "e",
         "m", ")">>,
         <<"G", "a", "t", "e", " ", "V", "a", "l", "v", "e", " ", "(", "R",
         "i", "s", "i", "n", "g", " ", "S", "t", "e", "m", ")">>>>>>,
     <<<<"g", "l", "o", "b", "e", " ", "v", "a", "l", "v", "e">>,
       <<<<"G", "l", "o", "b", "e", " ", "V", "a", "l", "v", "e">>>>>>,
     <<<<"b", "u", "t", "t", "e", "r", "f", "l", "y", " ", "v", "a", "l",
       "v", "e">>,
       <<<<"B", "u", "t", "t", "e", "r", "f", "l", "y", " ", "V", "a", "l",
         "v", "e">>,
         <<"B", "u", "t", "t", "e", "r", "f", "l", "y", " ", "V", "a", "l",
         "v", "e", "s">>,
         <<"H", "i", "g", "h", " ", "P", "e", "r", "f", "o", "r", "m", "a",
         "n", "c", "e", " ", "B", "u", "t", "t", "e", "r", "f", "l", "y",
         " ", "V", "a", "l", "v", "e">>,
         <<"P", "n", "e", "u", "m", "a", "t", "i", "c", "a", "l", "l", "y",
         " ", "A", "c", "t", "u", "a", "t", "e", "d", " ", "B", "u", "t",
         "t", "e", "r", "f", "l", "y", " ", "V", "a", "l", "v", "e">>,
         <<"E", "l", "e", "c", "t", "r", "i", "c", "a", "l", "l", "y", " ",
         "A", "c", "t", "u", "a", "t", "e", "d", " ", "B", "u", "t", "t",
         "e", "r", "f", "l", "y", " ", "V", "a", "l", "v", "e">>>>>>,
     <<<<"c", "h", "e", "c", "k", " ", "v", "a", "l", "v", "e">>,
       <<<<"C", "h", "e", "c", "k", " ", "V", "a", "l", "v", "e">>,
         <<"S", "w", "i", "n", "g", " ", "C", "h", "e", "c", "k", " ", "V",
         "a", "l", "v", "e">>,
         <<"S", "i", "l", "e", "n", "t", " ", "C", "h", "e", "c", "k", " ",
         "V", "a", "l", "v", "e">>,
         <<"H", "o", "r", "i", "z", "o", "n", "t", "a", "l", " ", "S", "w",
         "i", "n", "g", " ", "C", "h", "e", "c", "k", " ", "V", "a", "l",
         "v", "e">>>>>>,
     <<<<"s", "o", "l", "e", "n", "o", "i", "d", " ", "v", "a", "l", "v",
       "e">>,
       <<<<"S", "o", "l", "e", "n", "o", "i", "d", " ", "V", "a", "l", "v",
         "e">>>>>> >>

\* dict.get(key, default)
GetOr(dict, key, default) == IF HasKey(dict, key) THEN Item(dict, key) ELSE default

\* The lookup with the input as the key, neither lower-cased nor trimmed.
CompatibleMaterialsByExactKey(material_input) == GetOr(MATERIAL_COMPATIBILITY, material_input, <<material_input>>)

get_compatible_materials(material_input) ==
  LET material_lower == Strip(Lower(material_input))
  IN GetOr(MATERIAL_COMPATIBILITY, material_lower, <<material_input>>)

get_compatible_end_connections(connection_input) ==
  LET connection_lower == Strip(Lower(connection_input))
  IN GetOr(END_CONNECTION_COMPATIBILITY, connection_lower, <<connection_input>>)

normalize_valve_type(valve_type_input) ==
  LET valve_type_lower == Strip(Lower(valve_type_input))
  IN GetOr(VALVE_TYPE_ABBREVIATIONS, valve_type_lower, valve_type_input)

\* A row of valve_specs; extracted_at orders the rows.
SpecRow(id, valve_type, size_nominal, body_material, pressure_class, end_connection_inlet, end_connection_outlet, extracted_at) ==
  [id |-> id, valve_type |-> valve_type, size_nominal |-> size_nominal,
   body_material |-> body_material, pressure_class |-> pressure_class,
   end_connection_inlet |-> end_connection_inlet,
   end_connection_outlet |-> end_connection_outlet,
   extracted_at |-> extracted_at]

\* A condition of the WHERE clause with its parameters.
Condition(kind, column, params) == [kind |-> kind, column |-> column, params |-> params]

\* text LIKE pattern from position i of the text and j of the pattern, letter
\* case set aside: % stands for any run of characters, _ for any one.
RECURSIVE LikeFrom(_, _, _, _)
LikeFrom(text, pattern, i, j) ==
  IF j > Len(pattern) THEN i > Len(text)
  ELSE IF pattern[j] = "%"
       THEN \E k \in i..(Len(text) + 1) : LikeFrom(text, pattern, k, j + 1)
       ELSE /\ i <= Len(text)
            /\ pattern[j] = "_" \/ LowerChar(pattern[j]) = LowerChar(text[i])
            /\ LikeFrom(text, pattern, i + 1, j + 1)

\* text ILIKE pattern; no row is selected by a NULL.
ILike(text, pattern) == text # None /\ LikeFrom(text, pattern, 1, 1)

\* The valve type the lookup is made with: the abbreviation expanded.
ExpandedValveType(valve_type) ==
  LET normalized_valve_type == normalize_valve_type(valve_type)
  IN IF normalized_valve_type # valve_type THEN normalized_valve_type ELSE valve_type

\* The valve type condition: IN over the compatible types of the table's
\* key, ILIKE with the valve type as a prefix when there is no key.
ValveTypeClause(valve_type) ==
  LET expanded == ExpandedValveType(valve_type)
      valve_type_lower == Strip(Lower(expanded))
      compatible_types == GetOr(VALVE_TYPE_COMPATIBILITY, valve_type_lower, None)
  IN IF compatible_types # None /\ compatible_types # <<>>
     THEN Condition("IN", "valve_type", compatible_types)
     ELSE Condition("ILIKE", "valve_type", <<expanded \o <<"%">>>>)

\* (size_nominal = %s OR size_nominal = %s)
SizeClause(size_nominal) ==
  Condition("=", "size_nominal", <<Strip(size_nominal), comprehensive_normalize_size(size_nominal)>>)

\* body_material IN (...)
MaterialClause(body_material) ==
  LET material_lower == Strip(Lower(body_material))
  IN Condition("IN", "body_material", GetOr(MATERIAL_COMPATIBILITY, material_lower, <<body_material>>))

\* The pressure condition without its IS NULL alternative.
PressureClauseExactOnly(pressure_class) == Condition("=", "pressure_class", <<pressure_class>>)

\* (pressure_class = %s OR pressure_class IS NULL)
PressureClause(pressure_class) == Condition("= OR IS NULL", "pressure_class", <<pressure_class>>)

\* One (end_connection_inlet = %s OR end_connection_outlet = %s) for every
\* compatible connection, joined by OR.
ConnectionClause(end_connection) ==
  LET connection_lower == Strip(Lower(end_connection))
  IN Condition("INLET OR OUTLET", "end_connection", GetOr(END_CONNECTION_COMPATIBILITY, connection_lower, <<end_connection>>))

\* The arguments of search_specs.
Criteria(valve_type, size_nominal, body_material, pressure_class, end_connection) ==
  [valve_type |-> valve_type, size_nominal |-> size_nominal,
   body_material |-> body_material, pressure_class |-> pressure_class,
   end_connection |-> end_connection]

\* The conditions in the order they are appended: one for every argument
\* that is not None and not ''.
Conditions(criteria) ==
  (IF Truthy(criteria.valve_type) THEN <<ValveTypeClause(criteria.valve_type)>> ELSE <<>>)
  \o (IF Truthy(criteria.size_nominal) THEN <<SizeClause(criteria.size_nominal)>> ELSE <<>>)
  \o (IF Truthy(criteria.body_material) THEN <<MaterialClause(criteria.body_material)>> ELSE <<>>)
  \o (IF Truthy(criteria.pressure_class) THEN <<PressureClause(criteria.pressure_class)>> ELSE <<>>)
  \o (IF Truthy(criteria.end_connection) THEN <<ConnectionClause(criteria.end_connection)>> ELSE <<>>)

\* The value a row holds in a column.
Field(row, column) ==
  CASE column = "valve_type" -> row.valve_type
    [] column = "size_nominal" -> row.size_nominal
    [] column = "body_material" -> row.body_material
    [] column = "pressure_class" -> row.pressure_class

\* The row satisfies the condition as SQL evaluates it: a comparison with
\* NULL is not true.
Satisfies(row, condition) ==
  LET params == condition.params
      Among(value) == value # None /\ \E i \in 1..Len(params) : params[i] = value
  IN CASE condition.kind = "IN" -> Among(Field(row, condition.column))
       [] condition.kind = "ILIKE" -> ILike(Field(row, condition.column), params[1])
       [] condition.kind = "=" -> Among(Field(row, condition.column))
       [] condition.kind = "= OR IS NULL" ->
            Field(row, condition.column) = None \/ Among(Field(row, condition.column))
       [] condition.kind = "INLET OR OUTLET" ->
            Among(row.end_connection_inlet) \/ Among(row.end_connection_outlet)

\* The conditions joined by OR.
WhereAny(row, conditions) == \E i \in 1..Len(conditions) : Satisfies(row, conditions[i])

\* WHERE: the conditions joined by AND, 1=1 when there is none.
Where(row, conditions) == \A i \in 1..Len(conditions) : Satisfies(row, conditions[i])

\* ORDER BY extracted_at DESC
RECURSIVE ByExtractedAtDesc(_)
ByExtractedAtDesc(S) ==
  IF S = {} THEN <<>>
  ELSE LET top == CHOOSE r \in S : \A o \in S : o.extracted_at <= r.extracted_at
       IN <<top>> \o ByExtractedAtDesc(S \ {top})

\* The list search_specs returns when the query runs.
search_specs(rows, criteria, max_results) ==
  Take(ByExtractedAtDesc({row \in rows : Where(row, Conditions(criteria))}), max_results)

\* The rows the crawler may store, one per source_url, and the most of them
\* the table holds.
MaxSpecs == 2

SpecRows ==
  {SpecRow(1, <<"G", "a", "t", "e", " ", "V", "a", "l", "v", "e">>, <<"1", "/", "2">>, <<"F", "o", "r", "g", "e", "d", " ", "S", "t", "e", "e", "l">>, <<"8", "0", "0">>, <<"S", "o", "c", "k", "e", "t", " ", "W", "e", "l", "d">>, <<"S", "o", "c", "k", "e", "t", " ", "W", "e", "l", "d">>, 1),
   SpecRow(2, <<"G", "a", "t", "e", " ", "V", "a", "l", "v", "e">>, <<"1", "/", "2">>, <<"C", "a", "r", "b", "o", "n", " ", "S", "t", "e", "e", "l">>, None, <<"N", "P", "T">>, <<"N", "P", "T">>, 2),
   SpecRow(3, <<"Y", "-", " ", "S", "t", "r", "a", "i", "n", "e", "r">>, <<"1">>, <<"3", "1", "6">>, <<"1", "5", "0">>, <<"1", "5", "0", "#">>, <<"1", "5", "0", "#">>, 3),
   SpecRow(4, <<"3", "-", "W", "a", "y", " ", "B", "a", "l", "l", " ", "V", "a", "l", "v", "e">>, <<"1", "/", "2">>, <<"B", "r", "a", "s", "s">>, <<"6", "0", "0">>, <<"F", "N", "P", "T">>, <<"F", "N", "P", "T">>, 4),
   SpecRow(5, <<"N", "e", "e", "d", "l", "e", " ", "V", "a", "l", "v", "e">>, <<"1", "/", "4">>, <<"S", "t", "a", "i", "n", "l", "e", "s", "s", " ", "S", "t", "e", "e", "l">>, <<"6", "0", "0", "0">>, None, <<"S", "W">>, 5),
   SpecRow(6, <<"P", "n", "e", "u", "m", "a", "t", "i", "c", "a", "l", "l", "y", " ", "A", "c", "t", "u", "a", "t", "e", "d", " ", "B", "u", "t", "t", "e", "r", "f", "l", "y", " ", "V", "a", "l", "v", "e">>, <<"2">>, <<"D", "u", "c", "t", "i", "l", "e", " ", "I", "r", "o", "n">>, <<"1", "5", "0">>, <<"F", "l", "a", "n", "g", "e", "d">>, <<"F", "l", "a", "n", "g", "e", "d">>, 6)}

\* The keys of a dict.
Keys(dict) == {dict[i][1] : i \in 1..Len(dict)}

\* The inputs of the catalog functions: every key, a key in another letter
\* case or between blanks, and inputs that have no key.
MaterialInputValues ==
  Keys(MATERIAL_COMPATIBILITY) \union {<<"C", "S">>, <<" ", "C", "a", "r", "b", "o", "n", " ", "S", "t", "e", "e", "l", " ">>, <<"T", "i", "t", "a", "n", "i", "u", "m">>}

ConnectionInputValues ==
  Keys(END_CONNECTION_COMPATIBILITY) \union {<<"S", "W">>, <<" ", "F", "l", "a", "n", "g", "e", "d", " ">>, <<"G", "r", "o", "o", "v", "e", "d">>}

ValveTypeInputValues ==
  Keys(VALVE_TYPE_COMPATIBILITY) \union {<<"G", "T">>, <<" ", "G", "t", " ">>, <<"G", "a", "t", "e", " ", "V", "a", "l", "v", "e">>, <<"N", "e", "e", "d", "l", "e">>, <<"P", "l", "u", "g", " ", "V", "a", "l", "v", "e">>}

\* The criteria of the searches: a valve type with or without a material, or
\* no valve type and any of the other criteria.
SearchCriteria ==
  {Criteria(valve_type, None, body_material, None, None) :
     valve_type \in ValveTypeInputValues, body_material \in {None, <<"c", "s">>}}
  \union
  {Criteria(None, c[1], c[2], c[3], c[4]) :
     c \in {None, <<"1", "/", "2">>} \X {None, <<"C", "S">>, <<" ", "C", "a", "r", "b", "o", "n", " ", "S", "t", "e", "e", "l", " ">>, <<"3", "1", "6">>, <<"T", "i", "t", "a", "n", "i", "u", "m">>}
             \X {None, <<"8", "0", "0">>} \X {None, <<"S", "W">>, <<"1", "5", "0", "#">>}}

\* The crawler stores a row of valve_specs.
InsertSpec(row) ==
  /\ call = NoCall
  /\ Cardinality(valve_specs) < MaxSpecs
  /\ \A r \in valve_specs : r.id # row.id
  /\ valve_specs' = valve_specs \cup {row}
  /\ UNCHANGED <<tablesExist, store, call,
               threads, cursors, redis, progress_file, fetched>>

GetCompatibleMaterials(material_input) ==
  /\ call = NoCall
  /\ call' = [op |-> "get_compatible_materials", arg |-> material_input,
              ret |-> get_compatible_materials(material_input)]
  /\ UNCHANGED <<tablesExist, store, valve_specs,
               threads, cursors, redis, progress_file, fetched>>

GetCompatibleEndConnections(connection_input) ==
  /\ call = NoCall
  /\ call' = [op |-> "get_compatible_end_connections", arg |-> connection_input,
              ret |-> get_compatible_end_connections(connection_input)]
  /\ UNCHANGED <<tablesExist, store, valve_specs,
               threads, cursors, redis, progress_file, fetched>>

NormalizeValveType(valve_type_input) ==
  /\ call = NoCall
  /\ call' = [op |-> "normalize_valve_type", arg |-> valve_type_input,
              ret |-> normalize_valve_type(valve_type_input)]
  /\ UNCHANGED <<tablesExist, store, valve_specs,
               threads, cursors, redis, progress_file, fetched>>

\* get_db_connection raises: search_specs raises before it builds a query.
SearchSpecsCannotConnect(criteria, max_results) ==
  /\ call = NoCall
  /\ call' = [op |-> "search_specs", criteria |-> criteria, max_results |-> max_results,
              conditions |-> <<>>, ret |-> [raised |-> TRUE, list |-> <<>>]]
  /\ UNCHANGED <<tablesExist, store, valve_specs,
               threads, cursors, redis, progress_file, fetched>>

\* search_specs builds the conditions, runs the query and returns its rows.
SearchSpecs(criteria, max_results) ==
  /\ call = NoCall
  /\ call' = [op |-> "search_specs", criteria |-> criteria, max_results |-> max_results,
              conditions |-> Conditions(criteria),
              ret |-> [raised |-> FALSE,
                       list |-> search_specs(valve_specs, criteria, max_results)]]
  /\ UNCHANGED <<tablesExist, store, valve_specs,
               threads, cursors, redis, progress_file, fetched>>

NextSingle ==
  \/ \E row \in SpecRows : InsertSpec(row)
  \/ \E material_input \in MaterialInputValues : GetCompatibleMaterials(material_input)
  \/ \E connection_input \in ConnectionInputValues : GetCompatibleEndConnections(connection_input)
  \/ \E valve_type_input \in ValveTypeInputValues : NormalizeValveType(valve_type_input)
  \/ call = NoCall /\ \E criteria \in SearchCriteria, max_results \in 0..MaxResults : SearchSpecsCannotConnect(criteria, max_results)
  \/ call = NoCall /\ \E criteria \in SearchCriteria, max_results \in 0..MaxResults : SearchSpecs(criteria, max_results)
  \/ Return

SpecSingle == Init /\ [][NextSingle]_vars

-----------------------------------------------------------------------------
(* Properties of calculate_score, stated on a call of it.                   *)

\* The score is in hundredths.
RECURSIVE SumOfWeights(_, _)
SumOfWeights(counted, n) ==
  IF n = 0 THEN 0
  ELSE SumOfWeights(counted, n - 1) + (IF counted[n] THEN Weights[n] ELSE 0)

\* a is part of b or b is part of a, letter case ignored; no text is ''.
EitherContains(a, b) ==
  \/ Contains(Lower(OrEmpty(a)), Lower(OrEmpty(b)))
  \/ Contains(Lower(OrEmpty(b)), Lower(OrEmpty(a)))

\* The pressure magnitude of a candidate: the first run of digits of its
\* stored pressure text.
StoredMagnitude(result) ==
  extract_pressure_number(OrElse(result.pressure_rating, result.pressure_class))

\* Does the query supply a value for the category?  For pressure, a value
\* with a magnitude.
Supplies(normalized_specs) ==
  << Truthy(normalized_specs.size),
     Truthy(normalized_specs.valveType),
     extract_pressure_number(normalized_specs.pressureRating) # NoNumber,
     Truthy(normalized_specs.material),
     Truthy(normalized_specs.endConnection) >>

\* Does the candidate match the supplied value of the category?  Size:
\* equal once normalized; type, material, connection: substring either way;
\* pressure: the candidate's magnitude is at least the requested one.
Matches(result, normalized_specs) ==
  << /\ result.size # None
     /\ normalize_size(result.size) = normalize_size(normalized_specs.size),
     EitherContains(normalized_specs.valveType,
                    OrElse(result.item, result.component_type)),
     /\ StoredMagnitude(result) # NoNumber
     /\ StoredMagnitude(result)
          >= extract_pressure_number(normalized_specs.pressureRating),
     EitherContains(normalized_specs.material, result.body_material),
     EitherContains(normalized_specs.endConnection,
                    OrElse(result.connection_type, result.end_connection)) >>

\* C1: the score calculate_score returns is between 0.0 and 1.0 and is the
\* sum of the weights of the categories that the query does not supply or
\* that the candidate matches; a supplied, unmatched category adds nothing.
C1_ScoreIsSumOfWeights ==
  call.op = "calculate_score" =>
    /\ call.ret.score \in 0..100
    /\ call.ret.score =
         SumOfWeights([c \in Categories |->
                         \/ ~Supplies(call.normalized_specs)[c]
                         \/ Matches(call.result, call.normalized_specs)[c]],
                      Len(Weights))

\* The tier that the thresholds give to a score in hundredths.
TierOfRounded(hundredths) ==
  IF hundredths >= 90 THEN 1
  ELSE IF hundredths >= 70 THEN 2
  ELSE IF hundredths >= 50 THEN 3
  ELSE 4

\* C2: the tier returned with a score is the threshold function of the
\* returned, rounded score: 1 from 0.90, 2 from 0.70, 3 from 0.50, else 4.
C2_TierOfRoundedScore ==
  call.op = "calculate_score" =>
    call.ret.tier = TierOfRounded(call.ret.score)

\* The other half of C2, which the code does satisfy: of two scored
\* results, the one with the higher score never has the worse tier.
C2_TierMonotone ==
  \A a, b \in DOMAIN ScoreTable :
    ScoreTable[a].score > ScoreTable[b].score
      => ScoreTable[a].tier <= ScoreTable[b].tier

\* The query without a value for category c.
Omit(normalized_specs, c) ==
  CASE c = 1 -> [normalized_specs EXCEPT !.size = None]
    [] c = 2 -> [normalized_specs EXCEPT !.valveType = None]
    [] c = 3 -> [normalized_specs EXCEPT !.pressureRating = None]
    [] c = 4 -> [normalized_specs EXCEPT !.material = None]
    [] c = 5 -> [normalized_specs EXCEPT !.endConnection = None]

\* C3: absence as wildcard: for every candidate, query and category, the
\* score against the query with the category omitted is at least the score
\* against the query itself, whatever value it supplies for the category.
C3_AbsenceAsWildcard ==
  call.op = "calculate_score" =>
    \A c \in Categories :
      calculate_score(call.result, Omit(call.normalized_specs, c)).score
        >= call.ret.score

\* C3's case: a supplied size that the candidate fails to match, and
\* omitting it raises the score.
C3_Witness ==
  /\ call.op = "calculate_score"
  /\ Truthy(call.normalized_specs.size)
  /\ ~call.awarded[1]
  /\ calculate_score(call.result, Omit(call.normalized_specs, 1)).score
       > call.ret.score

\* C4: when the query supplies a pressure rating, the pressure weight is
\* awarded exactly when the candidate's pressure magnitude is at least the
\* requested magnitude; a stored value with no digits earns nothing.
C4_PressureSufficiency ==
  (/\ call.op = "calculate_score"
   /\ extract_pressure_number(call.normalized_specs.pressureRating) # NoNumber)
    => (call.awarded[3] <=>
          /\ StoredMagnitude(call.result) # NoNumber
          /\ StoredMagnitude(call.result)
               >= extract_pressure_number(call.normalized_specs.pressureRating))

-----------------------------------------------------------------------------
(* Properties of search_jsonb_tiered, stated on a call of it.  The store    *)
(* of the state is the store the call has read.                             *)

Searched == call.op = "search_jsonb_tiered"

\* The candidates of the returned list.
ReturnedRows == {call.ret.list[i].row : i \in 1..Len(call.ret.list)}

\* N, N followed by a double quote, N wrapped in double quotes.
SizeVariants(N) == {N, N \o <<"\"">>, <<"\"">> \o N \o <<"\"">>}

\* The size the filter compares with: the query's size, normalized (twice,
\* lines 269 and 290).
FilterSize(normalized_specs) ==
  normalize_size(normalize_size(normalized_specs.size))

\* C5: with a size in the query, a candidate passes the size predicate iff
\* its stored size equals the normalized query size N, N followed by a
\* double quote, or N wrapped in double quotes: every returned candidate has
\* such a size, every candidate with such a size that passes the rest of the
\* filter is returned unless the list is full, and a query for 6 never
\* returns a stored size 16.
C5_SizeExactMatch ==
  (/\ Searched
   /\ call.executed = "ran"
   /\ Truthy(FilterSize(call.normalized_specs)))
    => /\ \A r \in ReturnedRows :
            r.size \in SizeVariants(FilterSize(call.normalized_specs))
       /\ Len(call.ret.list) < call.max_results
            => \A r \in store :
                 (/\ r.size \in SizeVariants(FilterSize(call.normalized_specs))
                  /\ WhereClause(r, Omit(call.normalized_specs, 1)))
                   => r \in ReturnedRows
       /\ FilterSize(call.normalized_specs) = <<"6">>
            => \A r \in ReturnedRows : r.size # <<"1", "6">>

\* C5's case: a query for 6" alone, a store with a size 6 and a size 16; the
\* 6 is returned.
C5_Witness ==
  /\ Searched
  /\ call.executed = "ran"
  /\ call.normalized_specs = Query(<<"6", "\"">>, None, None, None, None, None)
  /\ \E r \in store : r.size = <<"1", "6">>
  /\ \E r \in ReturnedRows : r.size = <<"6">>

\* The hard predicates as the filter is described: size by SizeVariants;
\* valve type a substring of the item or the component type, letter case
\* ignored; pressure the same integer magnitude; material, seat material
\* and connection equal, letter case ignored.
TypePredicate(row, valve_type) ==
  \/ row.item # None /\ Contains(Lower(row.item), Lower(valve_type))
  \/ row.component_type # None
       /\ Contains(Lower(row.component_type), Lower(valve_type))

PressurePredicate(row, pressure) ==
  /\ DigitsOnly(PressureText(row)) # <<>>
  /\ ToInt(DigitsOnly(PressureText(row))) = extract_pressure_number(pressure)

EqualIgnoringCase(column, value) ==
  column # None /\ Lower(column) = Lower(value)

HardPredicates(row, normalized_specs) ==
  /\ Truthy(normalized_specs.size)
       => row.size \in SizeVariants(FilterSize(normalized_specs))
  /\ Truthy(normalized_specs.valveType)
       => TypePredicate(row, normalized_specs.valveType)
  /\ extract_pressure_number(normalized_specs.pressureRating) # NoNumber
       => PressurePredicate(row, normalized_specs.pressureRating)
  /\ Truthy(normalized_specs.material)
       => EqualIgnoringCase(row.body_material, normalized_specs.material)
  /\ Truthy(normalized_specs.seatMaterial)
       => EqualIgnoringCase(row.seat_material, normalized_specs.seatMaterial)
  /\ Truthy(normalized_specs.endConnection)
       => \/ EqualIgnoringCase(row.connection_type, normalized_specs.endConnection)
          \/ EqualIgnoringCase(row.end_connection, normalized_specs.endConnection)
          \/ EqualIgnoringCase(row.body_style, normalized_specs.endConnection)

\* C6: every returned candidate satisfies the hard predicate of every field
\* the query supplies, the predicates joined by AND; a field the query does
\* not supply excludes no candidate: a candidate that satisfies them all is
\* returned unless the list is full.
C6_HardPredicates ==
  Searched =>
    /\ \A r \in ReturnedRows : HardPredicates(r, call.normalized_specs)
    /\ (call.executed = "ran" /\ Len(call.ret.list) < call.max_results)
         => \A r \in store :
              HardPredicates(r, call.normalized_specs) => r \in ReturnedRows

\* C7: the returned list is in the order of non-increasing score and has at
\* most max_results entries.
C7_RankedAndTruncated ==
  Searched =>
    /\ Len(call.ret.list) <= call.max_results
    /\ \A i, j \in 1..Len(call.ret.list) :
         i < j => call.ret.list[i].score >= call.ret.list[j].score

\* C7's case: more candidates selected than asked for, the list full, and a
\* candidate of higher score put before one of higher id.
C7_Witness ==
  /\ Searched
  /\ call.executed = "ran"
  /\ Len(Selected(store, call.normalized_specs, call.max_results))
       > call.max_results
  /\ Len(call.ret.list) = call.max_results
  /\ \E i, j \in 1..Len(call.ret.list) :
       /\ i < j
       /\ call.ret.list[i].score > call.ret.list[j].score
       /\ call.ret.list[i].row.id < call.ret.list[j].row.id

\* C8: a failure to execute the filter query reaches the caller as an
\* explicit failure, never as a result list.
C8_ExecutionFailureIsExplicit ==
  (Searched /\ call.executed = "failed") => call.ret.raised

\* The first half of C9, which the code does satisfy: the list returned with
\* relax_constraints is the list returned without it.
C9_RelaxChangesNothing ==
  (Searched /\ call.executed = "ran") =>
    call.ret.list = Ranked(store, call.normalized_specs, call.max_results,
                           ~call.relax_constraints)

\* C9: relax_constraints never widens a search: with it and without it the
\* same list is returned, and no returned candidate fails a hard predicate
\* of a field the query supplies.
C9_RelaxNeverWidens ==
  /\ C9_RelaxChangesNothing
  /\ Searched =>
       \A r \in ReturnedRows : HardPredicates(r, call.normalized_specs)

-----------------------------------------------------------------------------
(* C10: size normalization is idempotent for every input string, for the   *)
(* tiered-search normalizer and for the single-table normalizer: a second  *)
(* call on the result of the first returns that result unchanged.          *)
C10_SizeIdempotent ==
  call.op = "normalize_size_again" => SameText(call.ret, call.first)

\* The single-table half of C10, which the code does satisfy.
C10_SingleTableIdempotent ==
  (call.op = "normalize_size_again" /\ call.which = "single")
    => SameText(call.ret, call.first)

-----------------------------------------------------------------------------
(* Properties of the synonym normalizer, stated on a call of normalize_specs. *)

\* The spellings of each category's key, the canonical spelling first.
CategoryKeys ==
  << <<<<"m", "a", "t", "e", "r", "i", "a", "l">>, <<"b", "o", "d", "y", "M", "a", "t", "e", "r", "i", "a", "l">>, <<"b", "o", "d", "y", "_", "m", "a", "t", "e", "r", "i", "a", "l">>>>,
     <<<<"s", "e", "a", "t", "M", "a", "t", "e", "r", "i", "a", "l">>, <<"s", "e", "a", "t", "_", "m", "a", "t", "e", "r", "i", "a", "l">>, <<"s", "e", "a", "t">>>>,
     <<<<"e", "n", "d", "C", "o", "n", "n", "e", "c", "t", "i", "o", "n">>, <<"c", "o", "n", "n", "e", "c", "t", "i", "o", "n">>, <<"e", "n", "d", "_", "c", "o", "n", "n", "e", "c", "t", "i", "o", "n">>>>,
     <<<<"v", "a", "l", "v", "e", "T", "y", "p", "e">>, <<"v", "a", "l", "v", "e", "_", "t", "y", "p", "e">>, <<"t", "y", "p", "e">>>>,
     <<<<"p", "r", "e", "s", "s", "u", "r", "e", "R", "a", "t", "i", "n", "g">>, <<"p", "r", "e", "s", "s", "u", "r", "e">>, <<"p", "r", "e", "s", "s", "u", "r", "e", "_", "r", "a", "t", "i", "n", "g">>>> >>

\* The canonical key of the category a key spells, letter case set aside;
\* None for a key of no category.
CategoryOf(key) ==
  LET hits == {g \in 1..Len(CategoryKeys) : \E i \in 1..Len(CategoryKeys[g]) : Lower(CategoryKeys[g][i]) = Lower(key)}
  IN IF hits = {} THEN None ELSE CategoryKeys[CHOOSE g \in hits : TRUE][1]

\* CategoryOf of every key the queries carry, computed once.
KeyCategory == [key \in CategoryKeyInputs \union SizeKeyInputs |-> CategoryOf(key)] @@ <<>>

AllowListed(key) == KeyCategory[key] # None

\* The items of the query that carry a value.
Supplied(specs) == {i \in 1..Len(specs) : specs[i][2] # None}

\* Item i is the only supplied item of its category.
AloneInCategory(specs, i) ==
  \A j \in Supplied(specs) \ {i} : KeyCategory[specs[j][1]] # KeyCategory[specs[i][1]]

Least(S) == CHOOSE i \in S : \A j \in S : i <= j

\* The resolution order as the specification words it.
Resolved(value) ==
  LET v == Strip(Lower(value))
      exact == {i \in 1..Len(synonym_map) : synonym_map[i].synonym = v}
      partial == {i \in 1..Len(synonym_map) :
                    Contains(v, synonym_map[i].synonym) \/ Contains(synonym_map[i].synonym, v)}
  IN IF exact # {} THEN synonym_map[Least(exact)].canonical
     ELSE IF partial # {} THEN synonym_map[Least(partial)].canonical
     ELSE [i \in 1..Len(v) |-> IF v[i] = " " THEN "_" ELSE v[i]]

Resolutions == [value \in SpecValues \ {None} |-> Resolved(value)] @@ <<>>

\* C11: the value of every allow-listed field that carries a value comes out
\* resolved in the stated order: lower-cased and trimmed, then the canonical
\* tag of the exact key, else of the first key in table order that lies in
\* the value or holds it, else the value with spaces turned to underscores;
\* material "SS" comes out as stainless_steel and seatMaterial "teflon" as
\* ptfe.
C11_ResolutionOrder ==
  call.op = "normalize_specs" =>
    /\ \A i \in Supplied(call.specs) :
         LET key == call.specs[i][1]
             value == call.specs[i][2]
         IN (AllowListed(key) /\ AloneInCategory(call.specs, i)) =>
              Resolutions[value] \in {Item(call.ret, key), Item(call.ret, KeyCategory[key])}
    /\ call.specs = << <<<<"m", "a", "t", "e", "r", "i", "a", "l">>, <<"S", "S">>>> >> => call.ret = << <<<<"m", "a", "t", "e", "r", "i", "a", "l">>, <<"s", "t", "a", "i", "n", "l", "e", "s", "s", "_", "s", "t", "e", "e", "l">>>> >>
    /\ call.specs = << <<<<"s", "e", "a", "t", "M", "a", "t", "e", "r", "i", "a", "l">>, <<"t", "e", "f", "l", "o", "n">>>> >> => call.ret = << <<<<"s", "e", "a", "t", "M", "a", "t", "e", "r", "i", "a", "l">>, <<"p", "t", "f", "e">>>> >>

\* A call that resolves "Brass" by its exact key, though the key ss, met
\* earlier in the table, lies in it, next to a value that no key matches.
C11_Witness ==
  /\ call.op = "normalize_specs"
  /\ call.specs = << <<<<"m", "a", "t", "e", "r", "i", "a", "l">>, <<"B", "r", "a", "s", "s">>>>, <<<<"v", "a", "l", "v", "e", "T", "y", "p", "e">>, <<"G", "a", "t", "e", " ", "V", "a", "l", "v", "e">>>> >>
  /\ call.ret = << <<<<"m", "a", "t", "e", "r", "i", "a", "l">>, <<"b", "r", "a", "s", "s">>>>, <<<<"v", "a", "l", "v", "e", "T", "y", "p", "e">>, <<"g", "a", "t", "e", "_", "v", "a", "l", "v", "e">>>> >>

\* C12 as stated: every field whose key is not allow-listed is in the output
\* under the same key with the identical value.
C12_FrameOfEveryField ==
  call.op = "normalize_specs" =>
    \A i \in 1..Len(call.specs) :
      LET key == call.specs[i][1]
          value == call.specs[i][2]
      IN ~AllowListed(key) => (HasKey(call.ret, key) /\ Item(call.ret, key) = value)

\* C12: resolution is applied to the allow-listed keys only; every other
\* field that carries a value is in the output under the same key with the
\* identical value, and a field whose value is None is left out of the output.
C12_FrameOfSuppliedFields ==
  call.op = "normalize_specs" =>
    \A i \in 1..Len(call.specs) :
      LET key == call.specs[i][1]
          value == call.specs[i][2]
      IN ~AllowListed(key) =>
           IF value # None
           THEN HasKey(call.ret, key) /\ Item(call.ret, key) = value
           ELSE ~HasKey(call.ret, key)

\* A size passes through next to a material that is resolved.
C12_Witness ==
  /\ call.op = "normalize_specs"
  /\ call.specs = << <<<<"s", "i", "z", "e">>, <<"6">>>>, <<<<"m", "a", "t", "e", "r", "i", "a", "l">>, <<"S", "S">>>> >>
  /\ call.ret = << <<<<"s", "i", "z", "e">>, <<"6">>>>, <<<<"m", "a", "t", "e", "r", "i", "a", "l">>, <<"s", "t", "a", "i", "n", "l", "e", "s", "s", "_", "s", "t", "e", "e", "l">>>> >>

\* C13: every allow-listed field that carries a value is in the output under
\* the canonical key of its category, and no key of the output is a
\* non-canonical spelling of a category key.
C13_CanonicalKeys ==
  call.op = "normalize_specs" =>
    /\ \A i \in Supplied(call.specs) :
         AllowListed(call.specs[i][1]) => HasKey(call.ret, KeyCategory[call.specs[i][1]])
    /\ \A j \in 1..Len(call.ret) :
         AllowListed(call.ret[j][1]) => call.ret[j][1] = KeyCategory[call.ret[j][1]]

\* The size a query supplies under the historical key and not under size;
\* None when it supplies none that way.
HistoricalSize(specs) ==
  IF Item(specs, <<"s", "i", "z", "e">>) = None THEN Item(specs, <<"s", "i", "z", "e", "_", "n", "o", "m", "i", "n", "a", "l">>) ELSE None

\* C14: a size supplied under size_nominal is in the output under the key
\* size, and the tiered search filters and scores the candidates by it as it
\* does for a size supplied under size.
C14_HistoricalSizeKey ==
  (call.op = "normalize_specs" /\ HistoricalSize(call.specs) # None) =>
    LET size == HistoricalSize(call.specs)
        read == ReadQuery(call.ret)
    IN /\ Item(call.ret, <<"s", "i", "z", "e">>) = size
       /\ \A row \in Rows :
            /\ WhereClause(row, read) => SizeCondition(row, normalize_size(normalize_size(size)))
            /\ SizeAwarded(row, read) = SizeAwarded(row, [size |-> size])

\* The synonym-table category of the fields stored under a canonical key;
\* the table has no valve type and no pressure rating entries.
TableCategory(canonical_key) ==
  IF canonical_key = <<"m", "a", "t", "e", "r", "i", "a", "l">> THEN "material"
  ELSE IF canonical_key = <<"s", "e", "a", "t", "M", "a", "t", "e", "r", "i", "a", "l">> THEN "seat_material"
  ELSE IF canonical_key = <<"e", "n", "d", "C", "o", "n", "n", "e", "c", "t", "i", "o", "n">> THEN "connection"
  ELSE "none"

\* The canonical tags of a category of the table.
TagsOf(category) ==
  {synonym_map[i].canonical : i \in {j \in 1..Len(synonym_map) : synonym_map[j].category = category}}

\* The format-only fallback of a raw value.
FormatOnly(value) == LET v == Strip(Lower(value)) IN [i \in 1..Len(v) |-> IF v[i] = " " THEN "_" ELSE v[i]]

\* C15: the value an allow-listed field comes out with is a canonical tag of
\* the field's own category or the format-only fallback of the raw value,
\* never a tag of another category.
C15_NoCrossCategory ==
  call.op = "normalize_specs" =>
    \A i \in Supplied(call.specs) :
      LET key == call.specs[i][1]
          value == call.specs[i][2]
      IN (AllowListed(key) /\ AloneInCategory(call.specs, i)) =>
           \E k \in {key, KeyCategory[key]} :
             /\ HasKey(call.ret, k)
             /\ \/ Item(call.ret, k) \in TagsOf(TableCategory(KeyCategory[key]))
                \/ Item(call.ret, k) = FormatOnly(value)

\* The canonical material groups in the order of precedence.
GroupOrder ==
  <<<<"s", "t", "a", "i", "n", "l", "e", "s", "s", "_", "s", "t", "e", "e", "l">>, <<"c", "a", "r", "b", "o", "n", "_", "s", "t", "e", "e", "l">>, <<"b", "r", "a", "s", "s">>, <<"b", "r", "o", "n", "z", "e">>,
    <<"c", "a", "s", "t", "_", "i", "r", "o", "n">>, <<"p", "l", "a", "s", "t", "i", "c">>, <<"a", "l", "u", "m", "i", "n", "u", "m">>>>

\* A lower-cased material holds a keyword of group g of GroupOrder, as the
\* grouping of generate_compatibility_suggestions spells the keywords.
HoldsKeyword(g, m) ==
  CASE g = 1 -> Contains(m, <<"s", "t", "a", "i", "n", "l", "e", "s", "s">>) \/ m = <<"s", "s">> \/ m = <<"s", ".", "s", ".">> \/ Contains(m, <<"3", "1", "6">>) \/ Contains(m, <<"3", "0", "4">>)
    [] g = 2 -> \/ (Contains(m, <<"c", "a", "r", "b", "o", "n">>) \/ Contains(m, <<"f", "o", "r", "g", "e", "d">>)) /\ Contains(m, <<"s", "t", "e", "e", "l">>)
                \/ m = <<"c", "s">> \/ m = <<"c", ".", "s", ".">>
    [] g = 3 -> Contains(m, <<"b", "r", "a", "s", "s">>)
    [] g = 4 -> Contains(m, <<"b", "r", "o", "n", "z", "e">>)
    [] g = 5 -> Contains(m, <<"c", "a", "s", "t", " ", "i", "r", "o", "n">>) \/ Contains(m, <<"d", "u", "c", "t", "i", "l", "e", " ", "i", "r", "o", "n">>)
    [] g = 6 -> Contains(m, <<"p", "v", "c">>) \/ Contains(m, <<"c", "p", "v", "c">>)
    [] g = 7 -> Contains(m, <<"a", "l", "u", "m", "i", "n", "u", "m">>) \/ Contains(m, <<"a", "l", "u", "m", "i", "n", "i", "u", "m">>)

\* The groups a key of the synonym table of which matches the lower-cased,
\* trimmed value in the substring scan.
ScanGroups(v) ==
  {g \in 1..Len(GroupOrder) :
     \E i \in 1..Len(synonym_map) :
       /\ synonym_map[i].category = "material"
       /\ synonym_map[i].canonical = GroupOrder[g]
       /\ (Contains(v, synonym_map[i].synonym) \/ Contains(synonym_map[i].synonym, v))}

\* The substring scan of the normalizer puts a material that no key equals
\* and that keys of two groups match into the first of these groups.
ScanPrecedence ==
  call.op = "normalize_specs" =>
    \A i \in Supplied(call.specs) :
      LET key == call.specs[i][1]
          v == Strip(Lower(call.specs[i][2]))
          exact == \E j \in 1..Len(synonym_map) : synonym_map[j].synonym = v
      IN (KeyCategory[key] = <<"m", "a", "t", "e", "r", "i", "a", "l">> /\ AloneInCategory(call.specs, i)
            /\ ~exact /\ Cardinality(ScanGroups(v)) >= 2) =>
           \E k \in {key, KeyCategory[key]} :
             HasKey(call.ret, k) /\ Item(call.ret, k) = GroupOrder[Least(ScanGroups(v))]

\* C16 as stated: a material holding keywords of two groups is put into the
\* first of these groups in the order of GroupOrder, by the grouping and by
\* the substring scan of the normalizer alike.
C16_FirstKeywordGroup ==
  /\ call.op = "generate_compatibility_suggestions" =>
       LET groups == {g \in 1..Len(GroupOrder) : HoldsKeyword(g, Lower(call.material))}
       IN Cardinality(groups) >= 2 => call.key = GroupOrder[Least(groups)]
  /\ ScanPrecedence

\* What holds of the grouping: the precedence is kept once a material that
\* holds "steel" is not counted as holding a cast or ductile iron keyword.
C16_FirstPassingGroup ==
  /\ call.op = "generate_compatibility_suggestions" =>
       LET m == Lower(call.material)
           groups == {g \in 1..Len(GroupOrder) :
                        HoldsKeyword(g, m) /\ (g = 5 => ~Contains(m, <<"s", "t", "e", "e", "l">>))}
       IN Cardinality(groups) >= 2 => call.key = GroupOrder[Least(groups)]
  /\ ScanPrecedence

-----------------------------------------------------------------------------
(* Properties of the compatibility catalog and of the single-table search,  *)
(* stated on a call of a catalog function or of search_specs.               *)

\* The expansion the specification gives an input: the list under the
\* lower-cased, trimmed input when that is a key of the catalog, the
\* singleton of the input as given when it is not.
ExpansionOf(catalog, input) ==
  LET key == Strip(Lower(input))
      at == {i \in 1..Len(catalog) : catalog[i][1] = key}
  IN IF at = {} THEN <<input>> ELSE catalog[CHOOSE i \in at : TRUE][2]

Members(list) == {list[i] : i \in 1..Len(list)}

\* search_specs ran its query.
SearchedSingle == call.op = "search_specs" /\ ~call.ret.raised

\* The rows search_specs returned.
ReturnedSpecs == {call.ret.list[i] : i \in 1..Len(call.ret.list)}

\* The conditions of the call on a column.
ConditionsOn(column) ==
  {call.conditions[i] : i \in {j \in 1..Len(call.conditions) : call.conditions[j].column = column}}

\* C17: the expansion of a material or end-connection input is the list of
\* the catalog under the lower-cased, trimmed input, or the singleton of the
\* input as given when the catalog has no such key; search_specs tests the
\* body material for membership in exactly this expansion and the inlet and
\* outlet connections for equality with a member of it.
C17_ExpansionByLoweredInput ==
  /\ call.op = "get_compatible_materials" =>
       call.ret = ExpansionOf(MATERIAL_COMPATIBILITY, call.arg)
  /\ call.op = "get_compatible_end_connections" =>
       call.ret = ExpansionOf(END_CONNECTION_COMPATIBILITY, call.arg)
  /\ (SearchedSingle /\ Truthy(call.criteria.body_material)) =>
       LET expansion == ExpansionOf(MATERIAL_COMPATIBILITY, call.criteria.body_material)
       IN /\ ConditionsOn("body_material") = {Condition("IN", "body_material", expansion)}
          /\ \A row \in ReturnedSpecs : row.body_material \in Members(expansion)
          /\ \A row \in valve_specs :
               (\A c \in ConditionsOn("body_material") : Satisfies(row, c))
                 <=> row.body_material \in Members(expansion)
  /\ (SearchedSingle /\ Truthy(call.criteria.end_connection)) =>
       LET expansion == ExpansionOf(END_CONNECTION_COMPATIBILITY, call.criteria.end_connection)
       IN /\ \A c \in ConditionsOn("end_connection") : c.params = expansion
          /\ ConditionsOn("end_connection") # {}
          /\ \A row \in ReturnedSpecs :
               row.end_connection_inlet \in Members(expansion)
                 \/ row.end_connection_outlet \in Members(expansion)

\* A search for the material "CS" returns a stored row of Forged Steel.
C17_Witness ==
  /\ SearchedSingle
  /\ call.criteria.body_material = <<"C", "S">>
  /\ \E row \in ReturnedSpecs : row.body_material = <<"F", "o", "r", "g", "e", "d", " ", "S", "t", "e", "e", "l">>

\* Two texts are the same but for the case of their letters.
SameButCase(a, b) == Len(a) = Len(b) /\ \A i \in 1..Len(a) : LowerChar(a[i]) = LowerChar(b[i])

\* C18: every key of the material and of the end-connection catalog is, but
\* for letter case, a member of its own expansion, so that a query for the
\* key matches a row that stores the key's own spelling.
C18_ExpansionTotality ==
  /\ (call.op = "get_compatible_materials" /\ call.arg \in Keys(MATERIAL_COMPATIBILITY)) =>
       \E member \in Members(call.ret) : SameButCase(member, call.arg)
  /\ (call.op = "get_compatible_end_connections" /\ call.arg \in Keys(END_CONNECTION_COMPATIBILITY)) =>
       \E member \in Members(call.ret) : SameButCase(member, call.arg)
  /\ (SearchedSingle /\ Len(call.conditions) = 1 /\ call.max_results >= MaxSpecs) =>
       /\ call.criteria.body_material \in Keys(MATERIAL_COMPATIBILITY) =>
            \A row \in valve_specs :
              row.body_material = call.criteria.body_material => row \in ReturnedSpecs
       /\ call.criteria.end_connection \in Keys(END_CONNECTION_COMPATIBILITY) =>
            \A row \in valve_specs :
              row.end_connection_inlet = call.criteria.end_connection => row \in ReturnedSpecs

\* C19: a valve type whose lower-cased, trimmed form is a key of the
\* valve-type compatibility table gets the condition valve_type IN over the
\* list under that key; only a valve type that has no such key gets the
\* case-insensitive prefix condition.
C19_MembershipForEveryKey ==
  (SearchedSingle /\ Truthy(call.criteria.valve_type)) =>
    LET valve_type == call.criteria.valve_type
        key == Strip(Lower(valve_type))
    IN IF key \in Keys(VALVE_TYPE_COMPATIBILITY)
       THEN ConditionsOn("valve_type") = {Condition("IN", "valve_type", Item(VALVE_TYPE_COMPATIBILITY, key))}
       ELSE \A c \in ConditionsOn("valve_type") : c.kind = "ILIKE"

\* The stored valve types a query by the abbreviation is to match: the full
\* name of the abbreviation and the types catalogued under it.
StoredFormsOf(abbreviation) ==
  {Item(VALVE_TYPE_ABBREVIATIONS, abbreviation)} \union Members(Item(VALVE_TYPE_COMPATIBILITY, abbreviation))

\* C20: a query by a valve-type abbreviation matches every stored row whose
\* valve type is the abbreviation's full name or is catalogued under the
\* abbreviation, a query for the material CS matches a row of Carbon Steel,
\* and the query for gt and cs returns a stored row of valve type Gate Valve
\* and body material Forged Steel.
C20_AbbreviationMatches ==
  SearchedSingle =>
    LET valve_type == call.criteria.valve_type
        body_material == call.criteria.body_material
    IN /\ (Truthy(valve_type) /\ Strip(Lower(valve_type)) \in Keys(VALVE_TYPE_ABBREVIATIONS)) =>
            \A row \in valve_specs :
              row.valve_type \in StoredFormsOf(Strip(Lower(valve_type)))
                => \A c \in ConditionsOn("valve_type") : Satisfies(row, c)
       /\ (Truthy(body_material) /\ Strip(Lower(body_material)) = <<"c", "s">>) =>
            \A row \in valve_specs :
              row.body_material = <<"C", "a", "r", "b", "o", "n", " ", "S", "t", "e", "e", "l">>
                => \A c \in ConditionsOn("body_material") : Satisfies(row, c)
       /\ (call.criteria = Criteria(<<"g", "t">>, None, <<"c", "s">>, None, None) /\ call.max_results >= MaxSpecs) =>
            \A row \in valve_specs :
              (row.valve_type = <<"G", "a", "t", "e", " ", "V", "a", "l", "v", "e">> /\ row.body_material = <<"F", "o", "r", "g", "e", "d", " ", "S", "t", "e", "e", "l">>)
                => row \in ReturnedSpecs

\* C21: with a pressure class supplied a row passes the pressure condition
\* exactly when its pressure_class is the supplied text or is NULL; a row
\* with another pressure class, a higher one included, does not pass and is
\* not returned.
C21_PressureExactOrAbsent ==
  (SearchedSingle /\ Truthy(call.criteria.pressure_class)) =>
    LET supplied == call.criteria.pressure_class
        Passes(row) == row.pressure_class = supplied \/ row.pressure_class = None
    IN /\ ConditionsOn("pressure_class") # {}
       /\ \A row \in valve_specs :
            (\A c \in ConditionsOn("pressure_class") : Satisfies(row, c)) <=> Passes(row)
       /\ \A row \in ReturnedSpecs : Passes(row)
       /\ (Len(call.conditions) = 1 /\ call.max_results >= MaxSpecs) =>
            ReturnedSpecs = {row \in valve_specs : Passes(row)}

\* A search for the pressure class 800 returns a stored row without a
\* pressure class and leaves out a stored row of class 6000.
C21_Witness ==
  /\ SearchedSingle
  /\ call.criteria.pressure_class = <<"8", "0", "0">>
  /\ \E row \in ReturnedSpecs : row.pressure_class = None
  /\ \E row \in valve_specs \ ReturnedSpecs : row.pressure_class = <<"6", "0", "0", "0">>

\* The columns the criteria of the call supply a value for.
SuppliedColumns ==
  {column \in {"valve_type", "size_nominal", "body_material", "pressure_class", "end_connection"} :
     Truthy(call.criteria[column])}

-----------------------------------------------------------------------------
(* Concurrent calls of the engine.  Each request thread runs one call of    *)
(* normalize_specs or of search_jsonb_tiered at a time, in the steps at     *)
(* which another thread can run in between: one item of the loop over       *)
(* specs.items(), and one database round trip of the search.  threads[t] is *)
(* the frame of thread t's call: its arguments and its local variables;     *)
(* cursors[c] is the result set held by the cursor of connection c.         *)

\* One connection for every call.
SharedConnection(t) == 1

\* Line 238 of jsonb_search.py: every call opens a connection of its own
\* and makes its cursor on it.
Connection(t) == t

\* The queries the threads send.
ConcurrentSpecs ==
  { << <<<<"m", "a", "t", "e", "r", "i", "a", "l">>, <<"S", "S">>>>, <<<<"s", "i", "z", "e">>, <<"6">>>> >>,
    << <<<<"v", "a", "l", "v", "e", "T", "y", "p", "e">>, <<"G", "a", "t", "e", " ", "V", "a", "l", "v", "e">>>>, <<<<"M", "a", "t", "e", "r", "i", "a", "l">>, None>> >> }

ConcurrentSearches ==
  { <<Query(None, <<"g", "a", "t", "e", "_", "v", "a", "l", "v", "e">>, None, None, None, None), 2>>,
    <<Query(<<"6">>, None, <<"1", "5", "0">>, None, None, None), 1>> }

\* The rows the crawler stores between the calls.
ConcurrentRows == {row \in Rows : row.id \in {1, 2, 4}}

Idle == \A t \in Threads : threads[t] = NoCall

\* The crawler writes while no search is under way.
CrawlerCreatesTables ==
  /\ Idle
  /\ CreateTables
  /\ UNCHANGED <<threads, cursors>>

CrawlerInsertsRow(row) ==
  /\ Idle
  /\ InsertRow(row)
  /\ UNCHANGED <<threads, cursors>>

\* Line 101 of synonym_normalizer.py: normalized = {}.
StartNormalize(t, specs) ==
  /\ threads[t] = NoCall
  /\ threads' = [threads EXCEPT ![t] = [op |-> "normalize_specs", specs |-> specs, pc |-> "loop", i |-> 1, normalized |-> <<>>]]
  /\ UNCHANGED <<tablesExist, store, valve_specs, call, cursors, redis, progress_file, fetched>>

\* Lines 103-155: one iteration of the loop.
NormalizeStep(t) ==
  /\ threads[t].op = "normalize_specs"
  /\ threads[t].pc = "loop"
  /\ threads[t].i <= Len(threads[t].specs)
  /\ LET item == threads[t].specs[threads[t].i]
     IN threads' = [threads EXCEPT ![t] = [op |-> "normalize_specs", specs |-> threads[t].specs, pc |-> "loop", i |-> threads[t].i + 1, normalized |-> NormalizeItem(threads[t].normalized, item[1], item[2])]]
  /\ UNCHANGED <<tablesExist, store, valve_specs, call, cursors, redis, progress_file, fetched>>

\* Line 157: return normalized.
NormalizeReturns(t) ==
  /\ threads[t].op = "normalize_specs"
  /\ threads[t].pc = "loop"
  /\ threads[t].i > Len(threads[t].specs)
  /\ threads' = [threads EXCEPT ![t] = [op |-> "normalize_specs", specs |-> threads[t].specs, pc |-> "done", ret |-> threads[t].normalized]]
  /\ UNCHANGED <<tablesExist, store, valve_specs, call, cursors, redis, progress_file, fetched>>

SearchFrame(t, pc) == [op |-> "search_jsonb_tiered", normalized_specs |-> threads[t].normalized_specs, max_results |-> threads[t].max_results, pc |-> pc]

SearchDone(t, raised, list) == [op |-> "search_jsonb_tiered", normalized_specs |-> threads[t].normalized_specs, max_results |-> threads[t].max_results, pc |-> "done", ret |-> [raised |-> raised, list |-> list]]

StartSearch(t, normalized_specs, max_results) ==
  /\ threads[t] = NoCall
  /\ threads' = [threads EXCEPT ![t] = [op |-> "search_jsonb_tiered", normalized_specs |-> normalized_specs, max_results |-> max_results, pc |-> "connect"]]
  /\ UNCHANGED <<tablesExist, store, valve_specs, call, cursors, redis, progress_file, fetched>>

\* Line 238: the connection cannot be made and the exception leaves the
\* call ...
ThreadCannotConnect(t) ==
  /\ threads[t].op = "search_jsonb_tiered"
  /\ threads[t].pc = "connect"
  /\ threads' = [threads EXCEPT ![t] = SearchDone(t, TRUE, <<>>)]
  /\ UNCHANGED <<tablesExist, store, valve_specs, call, cursors, redis, progress_file, fetched>>

\* ... or it is made.
ThreadConnects(t) ==
  /\ threads[t].op = "search_jsonb_tiered"
  /\ threads[t].pc = "connect"
  /\ threads' = [threads EXCEPT ![t] = SearchFrame(t, "tables")]
  /\ UNCHANGED <<tablesExist, store, valve_specs, call, cursors, redis, progress_file, fetched>>

\* Lines 243-259: the component tables are read; [] when there is none.
ThreadReadsTables(t) ==
  /\ threads[t].op = "search_jsonb_tiered"
  /\ threads[t].pc = "tables"
  /\ threads' = [threads EXCEPT ![t] = IF tablesExist THEN SearchFrame(t, "execute") ELSE SearchDone(t, FALSE, <<>>)]
  /\ UNCHANGED <<tablesExist, store, valve_specs, call, cursors, redis, progress_file, fetched>>

\* Lines 349-357: cursor.execute raises and [] is returned ...
ThreadQueryFails(t) ==
  /\ threads[t].op = "search_jsonb_tiered"
  /\ threads[t].pc = "execute"
  /\ ExecutionMayFail(store, threads[t].normalized_specs, threads[t].max_results)
  /\ threads' = [threads EXCEPT ![t] = SearchDone(t, FALSE, <<>>)]
  /\ UNCHANGED <<tablesExist, store, valve_specs, call, cursors, redis, progress_file, fetched>>

\* ... or line 350 leaves the selected rows in the cursor.
ThreadExecutes(t) ==
  /\ threads[t].op = "search_jsonb_tiered"
  /\ threads[t].pc = "execute"
  /\ ~ExecutionMustFail(store, threads[t].normalized_specs, threads[t].max_results)
  /\ cursors' = [cursors EXCEPT ![Connection(t)] = Selected(store, threads[t].normalized_specs, threads[t].max_results)]
  /\ threads' = [threads EXCEPT ![t] = SearchFrame(t, "fetch")]
  /\ UNCHANGED <<tablesExist, store, valve_specs, call, redis, progress_file, fetched>>

\* Lines 351-384: cursor.fetchall(); a copy of each row is scored, the
\* copies are sorted and cut.
ThreadFetches(t) ==
  /\ threads[t].op = "search_jsonb_tiered"
  /\ threads[t].pc = "fetch"
  /\ threads' = [threads EXCEPT ![t] = SearchDone(t, FALSE, Take(SortByScore(Scored(cursors[Connection(t)], threads[t].normalized_specs)), threads[t].max_results))]
  /\ cursors' = [cursors EXCEPT ![Connection(t)] = None]
  /\ UNCHANGED <<tablesExist, store, valve_specs, call, redis, progress_file, fetched>>

\* The caller takes what the call returned.
ThreadReturns(t) ==
  /\ threads[t] # NoCall
  /\ threads[t].pc = "done"
  /\ threads' = [threads EXCEPT ![t] = NoCall]
  /\ UNCHANGED <<tablesExist, store, valve_specs, call, cursors, redis, progress_file, fetched>>

NextConcurrent ==
  \/ CrawlerCreatesTables
  \/ \E row \in ConcurrentRows : CrawlerInsertsRow(row)
  \/ \E t \in Threads, specs \in ConcurrentSpecs : StartNormalize(t, specs)
  \/ \E t \in Threads : NormalizeStep(t)
  \/ \E t \in Threads : NormalizeReturns(t)
  \/ \E t \in Threads, c \in ConcurrentSearches : StartSearch(t, c[1], c[2])
  \/ \E t \in Threads : ThreadCannotConnect(t)
  \/ \E t \in Threads : ThreadConnects(t)
  \/ \E t \in Threads : ThreadReadsTables(t)
  \/ \E t \in Threads : ThreadQueryFails(t)
  \/ \E t \in Threads : ThreadExecutes(t)
  \/ \E t \in Threads : ThreadFetches(t)
  \/ \E t \in Threads : ThreadReturns(t)

SpecConcurrent == Init /\ [][NextConcurrent]_vars

-----------------------------------------------------------------------------
(* Properties of concurrent calls.                                          *)

\* What a finished call can have returned had it run alone on the tables
\* of the state.
Alone(frame) ==
  IF frame.op = "normalize_specs" THEN {normalize_specs(frame.specs)}
  ELSE {[raised |-> TRUE, list |-> <<>>]}
       \union (IF ~tablesExist \/ ExecutionMayFail(store, frame.normalized_specs, frame.max_results) THEN {[raised |-> FALSE, list |-> <<>>]} ELSE {})
       \union (IF tablesExist /\ ~ExecutionMustFail(store, frame.normalized_specs, frame.max_results) THEN {[raised |-> FALSE, list |-> Ranked(store, frame.normalized_specs, frame.max_results, FALSE)]} ELSE {})

\* The query object a call was given.
Given(frame) == IF frame.op = "normalize_specs" THEN frame.specs ELSE frame.normalized_specs

Running(t) == threads[t] # NoCall /\ threads'[t] # NoCall

ReturnedAlone == \A t \in Threads : threads[t] # NoCall /\ threads[t].pc = "done" => threads[t].ret \in Alone(threads[t])

ReadOnly == \A t \in Threads : Running(t) => Given(threads'[t]) = Given(threads[t]) /\ store' = store /\ tablesExist' = tablesExist /\ valve_specs' = valve_specs

\* C23: under every interleaving of the steps of concurrent normalize_specs
\* and search_jsonb_tiered calls, a finished call has returned what it
\* returns when it runs alone, and no step of a call changes the query
\* object the call was given or a stored record.  The synonym table and the
\* catalogs are assigned once, when they are built, and by no call.
C23_StatelessPerCall == []ReturnedAlone /\ [][ReadOnly]_vars

\* Two calls are finished at once, a normalization that wrote a canonical
\* tag and a search that returned a row; they overlapped.
C23_Witness ==
  /\ threads[1] # NoCall /\ threads[1].op = "normalize_specs" /\ threads[1].pc = "done"
  /\ Item(threads[1].ret, <<"m", "a", "t", "e", "r", "i", "a", "l">>) = <<"s", "t", "a", "i", "n", "l", "e", "s", "s", "_", "s", "t", "e", "e", "l">>
  /\ threads[2] # NoCall /\ threads[2].op = "search_jsonb_tiered" /\ threads[2].pc = "done"
  /\ threads[2].ret.list # <<>>

-----------------------------------------------------------------------------
(* Job results (src/database/database_api.py, merge_job_result).  The cache *)
(* holds, under the key of one job, the JSON text of a list of results;     *)
(* redis.job is that list as json.loads returns it, NoValue when the key is *)
(* missing, and redis.client tells whether the server started with a        *)
(* connected client.  A result is an object with an optional rowIndex and a *)
(* payload; a rowIndex is a number, JSON null, or missing.                  *)

Number(n) == [kind |-> "number", n |-> n]

Null == [kind |-> "null", n |-> 0]

Missing == [kind |-> "missing", n |-> 0]

\* The value json.dumps wrote under the key, parsed.
Value(results) == [found |-> TRUE, results |-> results]

JobResult(rowIndex, bestMatch) == [rowIndex |-> rowIndex, bestMatch |-> bestMatch]

\* result.get('rowIndex'): None for a null and for a missing rowIndex.
RowIndex(result) == IF result.rowIndex = Missing THEN Null ELSE result.rowIndex

\* Line 702: the sort key of a result without rowIndex.
DefaultRowIndex == 999999

\* Line 702: r.get('rowIndex', 999999).
SortKey(result) == IF result.rowIndex = Missing THEN Number(DefaultRowIndex) ELSE result.rowIndex

\* Lines 663-676: the list read from the cache, [] when the key is absent.
ExistingResults(value) == IF value.found THEN value.results ELSE <<>>

\* Lines 678-698: the result replaces the first stored result of its
\* rowIndex; it is appended when there is none or when it has no rowIndex.
Merged(existing_results, new_result) ==
  LET new_row_index == RowIndex(new_result)
      found == {i \in 1..Len(existing_results) : RowIndex(existing_results[i]) = new_row_index}
  IN IF new_row_index # Null /\ found # {}
     THEN [existing_results EXCEPT ![CHOOSE i \in found : \A j \in found : i <= j] = new_result]
     ELSE Append(existing_results, new_result)

\* Line 702: list.sort compares the keys with <, which raises TypeError
\* when one of them is None; a list of one element is not compared.
SortRaises(results) == Len(results) >= 2 /\ \E i \in 1..Len(results) : SortKey(results[i]) = Null

\* x put into the sorted list, after the elements whose key is not greater.
RECURSIVE InsertByRowIndex(_, _)
InsertByRowIndex(sorted, x) ==
  IF sorted = <<>> THEN <<x>>
  ELSE IF SortKey(Head(sorted)).n <= SortKey(x).n
       THEN <<Head(sorted)>> \o InsertByRowIndex(Tail(sorted), x)
       ELSE <<x>> \o sorted

\* Line 702: a stable sort, ascending.
RECURSIVE SortByRowIndex(_)
SortByRowIndex(results) ==
  IF results = <<>> THEN <<>>
  ELSE InsertByRowIndex(SortByRowIndex(SubSeq(results, 1, Len(results) - 1)), results[Len(results)])

\* Lines 712-724 and 726-730: the answers.
Stored(results) == [status |-> 200, success |-> TRUE, results |-> results]

Failed(status) == [status |-> status, success |-> FALSE, results |-> <<>>]

\* The stored list holds at most MaxJobResults results.
MaxJobResults == 3

\* The results and the arrays the requests carry.
JobResults == {JobResult(r, b) : r \in {Number(1), Number(2), Null, Missing}, b \in {<<"a">>, <<"b">>}}

JobArrays ==
  { <<>>,
    <<JobResult(Number(2), <<"a">>), JobResult(Number(1), <<"a">>)>>,
    <<JobResult(Number(1), <<"a">>), JobResult(Number(1), <<"b">>)>> }

\* Lines 632-636: no client, 503.
MergeWithoutRedis(new_result) ==
  /\ call = NoCall
  /\ ~redis.client
  /\ call' = [op |-> "merge_job_result", mode |-> "single", new_result |-> new_result, before |-> redis.job, ret |-> Failed(503)]
  /\ UNCHANGED <<tablesExist, store, valve_specs, threads, cursors, redis, progress_file, fetched>>

\* Lines 649-652 and 702-724: the request carries a results array, which
\* replaces the stored list.
ReplaceJobResults(results) ==
  /\ call = NoCall
  /\ redis.client
  /\ redis' = IF SortRaises(results) THEN redis ELSE [client |-> TRUE, job |-> Value(SortByRowIndex(results))]
  /\ call' = [op |-> "merge_job_result", mode |-> "array", results |-> results, before |-> redis.job,
              ret |-> IF SortRaises(results) THEN Failed(500) ELSE Stored(SortByRowIndex(results))]
  /\ UNCHANGED <<tablesExist, store, valve_specs, threads, cursors, progress_file, fetched>>

\* Lines 653-724: the request carries one result; 726-730 when the sort
\* raises.
MergeJobResult(new_result) ==
  /\ call = NoCall
  /\ redis.client
  /\ Len(ExistingResults(redis.job)) < MaxJobResults
  /\ LET merged == Merged(ExistingResults(redis.job), new_result)
     IN /\ redis' = IF SortRaises(merged) THEN redis ELSE [client |-> TRUE, job |-> Value(SortByRowIndex(merged))]
        /\ call' = [op |-> "merge_job_result", mode |-> "single", new_result |-> new_result, before |-> redis.job,
                    ret |-> IF SortRaises(merged) THEN Failed(500) ELSE Stored(SortByRowIndex(merged))]
  /\ UNCHANGED <<tablesExist, store, valve_specs, threads, cursors, progress_file, fetched>>

\* The server starts with or without a connected client (lines 72-114).
InitJob ==
  /\ tablesExist = FALSE
  /\ store = {}
  /\ valve_specs = {}
  /\ call = NoCall
  /\ threads = [t \in Threads |-> NoCall]
  /\ cursors = [t \in Threads |-> None]
  /\ redis \in {[client |-> c, job |-> NoValue] : c \in BOOLEAN}
  /\ progress_file = NoProgressFile
  /\ fetched = <<>>

NextJob ==
  \/ \E new_result \in JobResults : MergeWithoutRedis(new_result)
  \/ \E results \in JobArrays : ReplaceJobResults(results)
  \/ \E new_result \in JobResults : MergeJobResult(new_result)
  \/ Return

SpecJob == InitJob /\ [][NextJob]_vars

\* Two request threads.  The handler reads the cache (line 665) and writes
\* it (line 706) in two round trips; another thread can run in between.
ConcurrentJobResults == {r \in JobResults : r.rowIndex.kind = "number"}

ThreadMergeWithoutRedis(t, new_result) ==
  /\ threads[t] = NoCall
  /\ ~redis.client
  /\ threads' = [threads EXCEPT ![t] = [op |-> "merge_job_result", new_result |-> new_result, pc |-> "done", ret |-> Failed(503)]]
  /\ UNCHANGED <<tablesExist, store, valve_specs, call, cursors, redis, progress_file, fetched>>

\* Lines 638-676: the stored list is read.
ThreadMergeReads(t, new_result) ==
  /\ threads[t] = NoCall
  /\ redis.client
  /\ Len(ExistingResults(redis.job)) < MaxJobResults
  /\ threads' = [threads EXCEPT ![t] = [op |-> "merge_job_result", new_result |-> new_result, pc |-> "merge", existing_results |-> ExistingResults(redis.job)]]
  /\ UNCHANGED <<tablesExist, store, valve_specs, call, cursors, redis, progress_file, fetched>>

\* Lines 678-730: the result is merged into the list that was read, and the
\* list is written.
ThreadMergeWrites(t) ==
  /\ threads[t].op = "merge_job_result"
  /\ threads[t].pc = "merge"
  /\ LET merged == Merged(threads[t].existing_results, threads[t].new_result)
     IN /\ redis' = IF SortRaises(merged) THEN redis ELSE [client |-> TRUE, job |-> Value(SortByRowIndex(merged))]
        /\ threads' = [threads EXCEPT ![t] = [op |-> "merge_job_result", new_result |-> threads[t].new_result, pc |-> "done",
                                              ret |-> IF SortRaises(merged) THEN Failed(500) ELSE Stored(SortByRowIndex(merged))]]
  /\ UNCHANGED <<tablesExist, store, valve_specs, call, cursors, progress_file, fetched>>

NextJobConcurrent ==
  \/ \E t \in Threads, new_result \in ConcurrentJobResults : ThreadMergeWithoutRedis(t, new_result)
  \/ \E t \in Threads, new_result \in ConcurrentJobResults : ThreadMergeReads(t, new_result)
  \/ \E t \in Threads : ThreadMergeWrites(t)
  \/ \E t \in Threads : ThreadReturns(t)

SpecJobConcurrent == InitJob /\ [][NextJobConcurrent]_vars

-----------------------------------------------------------------------------
(* Properties of the job results.                                           *)

\* The rowIndex values of a list are distinct.
Distinct(results) == \A i, j \in 1..Len(results) : i # j => RowIndex(results[i]) # RowIndex(results[j])

Ascending(results) == \A i, j \in 1..Len(results) : i < j => SortKey(results[i]).n <= SortKey(results[j]).n

With(results, rowIndex) == {i \in 1..Len(results) : RowIndex(results[i]) = rowIndex}

Others(results, rowIndex) == SelectSeq(results, LAMBDA r : RowIndex(r) # rowIndex)

\* A single-result merge has been handled by a server that has a client.
MergedSingle == call.op = "merge_job_result" /\ call.mode = "single" /\ call.ret.status # 503

\* C24: after a single-result merge into a stored list of distinct rowIndex
\* values, the stored list holds exactly one entry of the new result's
\* rowIndex, which is the new result; the entries of another rowIndex are
\* the ones stored before, in their order; the list is sorted ascending by
\* rowIndex; and its rowIndex values are distinct.
C24_MergeSingleResult ==
  MergedSingle /\ Distinct(ExistingResults(call.before)) =>
    LET after == ExistingResults(redis.job)
        rowIndex == RowIndex(call.new_result)
    IN /\ \E i \in 1..Len(after) : With(after, rowIndex) = {i} /\ after[i] = call.new_result
       /\ Others(after, rowIndex) = Others(ExistingResults(call.before), rowIndex)
       /\ Ascending(after)
       /\ Distinct(after)

\* The same for the merges that carry a number as rowIndex into a stored
\* list whose results all carry a number.
Numbered(results) == \A i \in 1..Len(results) : results[i].rowIndex.kind = "number"

C24_MergeNumbered ==
  MergedSingle /\ Distinct(ExistingResults(call.before)) /\ Numbered(ExistingResults(call.before)) /\ call.new_result.rowIndex.kind = "number" =>
    LET after == ExistingResults(redis.job)
        rowIndex == RowIndex(call.new_result)
    IN /\ \E i \in 1..Len(after) : With(after, rowIndex) = {i} /\ after[i] = call.new_result
       /\ Others(after, rowIndex) = Others(ExistingResults(call.before), rowIndex)
       /\ Ascending(after)
       /\ Distinct(after)
       /\ Numbered(after)

\* Both merges are finished and were answered 200, and their results have
\* different numbers as rowIndex.
BothMerged ==
  /\ \A t \in {1, 2} : threads[t] # NoCall /\ threads[t].pc = "done" /\ threads[t].ret.status = 200
  /\ \A t \in {1, 2} : threads[t].new_result.rowIndex.kind = "number"
  /\ threads[1].new_result.rowIndex # threads[2].new_result.rowIndex

\* C25: when two single-result merges of different rowIndex values for the
\* same job have run concurrently and both have returned, the stored list
\* holds both results.
C25_NoLostUpdate ==
  BothMerged => \A t \in {1, 2} : InSeq(threads[t].new_result, ExistingResults(redis.job))

-----------------------------------------------------------------------------
(* Properties that relate the strict filter of search_jsonb_tiered to       *)
(* calculate_score.                                                         *)

\* The search of the state ran its query.
SearchRan == call.op = "search_jsonb_tiered" /\ call.executed = "ran"

\* A stored row passes the filter predicate of a supplied category.
PassesSize(r, q) == Truthy(QuerySize(q)) /\ SizeCondition(r, normalize_size(QuerySize(q)))

PassesType(r, q) == Truthy(q.valveType) /\ TypeCondition(r, q.valveType)

PassesPressure(r, q) == PressureFiltered(q) /\ ~CastFails(r) /\ PressureCondition(r, extract_pressure_number(q.pressureRating))

PassesMaterial(r, q) == Truthy(q.material) /\ MaterialCondition(r, q.material)

PassesConnection(r, q) == Truthy(q.endConnection) /\ ConnectionCondition(r, q.endConnection)

SizeAgrees == SearchRan => \A r \in store : PassesSize(r, call.normalized_specs) => SizeAwarded(r, call.normalized_specs)

TypeAgrees == SearchRan => \A r \in store : PassesType(r, call.normalized_specs) => TypeAwarded(r, call.normalized_specs)

PressureAgrees == SearchRan => \A r \in store : PassesPressure(r, call.normalized_specs) => PressureAwarded(r, call.normalized_specs)

MaterialAgrees == SearchRan => \A r \in store : PassesMaterial(r, call.normalized_specs) => MaterialAwarded(r, call.normalized_specs)

ConnectionAgrees == SearchRan => \A r \in store : PassesConnection(r, call.normalized_specs) => ConnectionAwarded(r, call.normalized_specs)

AllFullScore == SearchRan => \A i \in 1..Len(call.ret.list) : call.ret.list[i].score = 100 /\ call.ret.list[i].tier = 1

\* C26: every stored candidate that passes the filter predicate of a
\* supplied category (size, valve type, pressure, material, end connection)
\* is awarded that category's weight by calculate_score, and every result
\* search_jsonb_tiered returns has score 1.0 and tier 1.
C26_FilterAndScoreAgree ==
  /\ SizeAgrees
  /\ TypeAgrees
  /\ PressureAgrees
  /\ MaterialAgrees
  /\ ConnectionAgrees
  /\ AllFullScore

\* The stored rows that pass the whole filter of the search of the state.
Passing == {r \in store : Evaluated[r.id][call.normalized_specs].where}

ScoreOf(r) == Evaluated[r.id][call.normalized_specs].scored.score

\* C27: the list search_jsonb_tiered returns holds the best candidates of
\* the whole store: no stored candidate that passes the filter and is left
\* out scores strictly higher than a returned candidate.
C27_BestOfWholeStore ==
  SearchRan => \A out \in Passing \ ReturnedRows, r \in ReturnedRows : ScoreOf(out) <= ScoreOf(r)

\* The same among the first 3 * max_results passing rows by descending id.
C27_BestOfLimitedRows ==
  SearchRan =>
    LET limited == Selected(store, call.normalized_specs, call.max_results)
    IN \A i \in 1..Len(limited), r \in ReturnedRows : limited[i] \notin ReturnedRows => ScoreOf(limited[i]) <= ScoreOf(r)

-----------------------------------------------------------------------------
(* Properties of calculate_score on candidates with missing attributes.     *)

\* The query supplies a value and the candidate's stored field is null or
\* empty.
MissingType == Truthy(call.normalized_specs.valveType) /\ ~Truthy(OrElse(call.result.item, call.result.component_type))

MissingMaterial == Truthy(call.normalized_specs.material) /\ ~Truthy(call.result.body_material)

MissingConnection == Truthy(call.normalized_specs.endConnection) /\ ~Truthy(OrElse(call.result.connection_type, call.result.end_connection))

\* C28: when the query supplies a valve type, a material or an end
\* connection and the candidate's stored field of that category is null or
\* empty, calculate_score does not add the weight of the category.
C28_MissingAttributeNotAwarded ==
  call.op = "calculate_score" =>
    /\ MissingType => ~call.awarded[2]
    /\ MissingMaterial => ~call.awarded[4]
    /\ MissingConnection => ~call.awarded[5]

-----------------------------------------------------------------------------
(* Batch extraction (src/extraction/batch_processor.py).  progress_file is  *)
(* the content of the progress file, fetched the pages fetched so far, in   *)
(* order.  call is the frame of the running batch_process: the URL list,    *)
(* the progress dict in memory, the set all_processed and the loop index i; *)
(* when the process has ended call keeps the URL list for the next run.     *)

\* config.py line 13.
RETRY_FAILED_URLS == FALSE

\* Lines 31-42: load_progress().
load_progress == [processed |-> progress_file.processed, failed |-> progress_file.failed, last_index |-> progress_file.last_index]

\* Lines 46-49: save_progress(progress).
save_progress(progress) == [exists |-> TRUE, processed |-> progress.processed, failed |-> progress.failed, last_index |-> progress.last_index]

\* set(progress.get('processed', [])).
AsSet(list) == {list[k] : k \in 1..Len(list)}

\* list.remove(x): the first occurrence is taken out.
Remove(list, x) ==
  LET first == CHOOSE k \in 1..Len(list) : list[k] = x /\ \A j \in 1..(k - 1) : list[j] # x
  IN SubSeq(list, 1, first - 1) \o SubSeq(list, first + 1, Len(list))

\* Lines 84-97: the index the loop starts from; Len(urls) when every URL is
\* in all_processed and the function returns at once.
FirstIndex(urls, progress) ==
  IF progress.last_index < Len(urls) THEN progress.last_index
  ELSE LET unprocessed == {k \in 0..(Len(urls) - 1) : urls[k + 1] \notin AsSet(progress.processed)}
       IN IF unprocessed = {} THEN Len(urls)
          ELSE CHOOSE k \in unprocessed : \A j \in unprocessed : k <= j

\* The frame when the process has ended.
Ended(urls) == [op |-> "batch_ended", urls |-> urls]

\* Lines 61-118: the frame when the loop is entered.
Entered(urls) ==
  LET progress == load_progress
  IN IF progress.last_index >= Len(urls) /\ FirstIndex(urls, progress) = Len(urls)
     THEN Ended(urls)
     ELSE [op |-> "batch_process", urls |-> urls, progress |-> progress,
           all_processed |-> AsSet(progress.processed), i |-> FirstIndex(urls, progress)]

\* The URL lists and the number of pages fetched in a behaviour.
MaxUrls == 3

MaxFetches == 4

Urls == {<<"u", "1">>, <<"u", "2">>}

UrlLists == UNION {[1..n -> Urls] : n \in 1..MaxUrls}

\* The first run.
BatchProcess(urls) ==
  /\ call = NoCall
  /\ call' = Entered(urls)
  /\ UNCHANGED <<tablesExist, store, valve_specs, threads, cursors, redis, progress_file, fetched>>

\* Another run over the same list.
BatchResume ==
  /\ call.op = "batch_ended"
  /\ call' = Entered(call.urls)
  /\ UNCHANGED <<tablesExist, store, valve_specs, threads, cursors, redis, progress_file, fetched>>

InLoop == call.op = "batch_process" /\ call.i < Len(call.urls)

Url == call.urls[call.i + 1]

Frame(progress, i) == [op |-> "batch_process", urls |-> call.urls, progress |-> progress, all_processed |-> call.all_processed, i |-> i]

\* Lines 125-128: the URL is in all_processed.
SkipProcessed ==
  /\ InLoop
  /\ Url \in call.all_processed
  /\ call' = Frame(call.progress, call.i + 1)
  /\ UNCHANGED <<tablesExist, store, valve_specs, threads, cursors, redis, progress_file, fetched>>

\* Lines 131-141: the URL failed before and failed URLs are not retried.
SkipFailed ==
  /\ InLoop
  /\ Url \notin call.all_processed
  /\ InSeq(Url, call.progress.failed)
  /\ ~RETRY_FAILED_URLS
  /\ call' = Frame(call.progress, call.i + 1)
  /\ UNCHANGED <<tablesExist, store, valve_specs, threads, cursors, redis, progress_file, fetched>>

\* The URL is fetched in this iteration.
Fetches ==
  /\ InLoop
  /\ Url \notin call.all_processed
  /\ InSeq(Url, call.progress.failed) => RETRY_FAILED_URLS
  /\ Len(fetched) < MaxFetches

\* Line 135: progress['failed'].remove(url) before a retry.
FailedBeforeFetch == IF InSeq(Url, call.progress.failed) THEN Remove(call.progress.failed, Url) ELSE call.progress.failed

\* Lines 146-175 and 193-194: the page is fetched, the spec is inserted and
\* the URL is recorded as processed.
ProcessInserted ==
  /\ Fetches
  /\ fetched' = Append(fetched, Url)
  /\ LET progress == [processed |-> Append(call.progress.processed, Url), failed |-> FailedBeforeFetch, last_index |-> call.i + 1]
     IN /\ call' = Frame(progress, call.i + 1)
        /\ progress_file' = save_progress(progress)
  /\ UNCHANGED <<tablesExist, store, valve_specs, threads, cursors, redis>>

\* Lines 146-194: the fetch, the extraction or the insert fails and the URL
\* is recorded as failed.
ProcessFailed ==
  /\ Fetches
  /\ fetched' = Append(fetched, Url)
  /\ LET progress == [processed |-> call.progress.processed, failed |-> Append(FailedBeforeFetch, Url), last_index |-> call.i + 1]
     IN /\ call' = Frame(progress, call.i + 1)
        /\ progress_file' = save_progress(progress)
  /\ UNCHANGED <<tablesExist, store, valve_specs, threads, cursors, redis>>

\* Lines 235-238: the user interrupts the run after the fetch of line 148
\* and before save_progress.
InterruptedAfterFetch ==
  /\ Fetches
  /\ fetched' = Append(fetched, Url)
  /\ call' = Ended(call.urls)
  /\ UNCHANGED <<tablesExist, store, valve_specs, threads, cursors, redis, progress_file>>

\* Lines 196-198 and 235-238: the user interrupts the run during the wait
\* between two requests.
InterruptedBetweenRequests ==
  /\ InLoop
  /\ call' = Ended(call.urls)
  /\ UNCHANGED <<tablesExist, store, valve_specs, threads, cursors, redis, progress_file, fetched>>

\* Lines 220-233: the loop is over.
BatchEnds ==
  /\ call.op = "batch_process"
  /\ call.i >= Len(call.urls)
  /\ call' = Ended(call.urls)
  /\ UNCHANGED <<tablesExist, store, valve_specs, threads, cursors, redis, progress_file, fetched>>

NextBatch ==
  \/ \E urls \in UrlLists : BatchProcess(urls)
  \/ BatchResume
  \/ SkipProcessed
  \/ SkipFailed
  \/ ProcessInserted
  \/ ProcessFailed
  \/ InterruptedAfterFetch
  \/ InterruptedBetweenRequests
  \/ BatchEnds

SpecBatch == Init /\ [][NextBatch]_vars

-----------------------------------------------------------------------------
(* Properties of the batch extraction.                                      *)

NoDuplicate(list) == \A j, k \in 1..Len(list) : j # k => list[j] # list[k]

\* The step fetches a page.
FetchedNow == Len(fetched') = Len(fetched) + 1

\* The step fetches a URL that the progress file records as processed.
FetchesProcessed == FetchedNow /\ InSeq(fetched'[Len(fetched')], progress_file.processed)

\* C29: no step of batch_process, in a first or in a resumed run over the
\* same URL list, fetches a URL that the progress file records as
\* processed, and the processed list of the progress file never holds a URL
\* twice.
C29_NoRepeatedWork == [](NoDuplicate(progress_file.processed)) /\ [][~FetchesProcessed]_vars

\* The same for URL lists in which no URL occurs twice.
ListedOnce == call.op \in {"batch_process", "batch_ended"} => NoDuplicate(call.urls)

C29_NoRepeatedWorkOfDistinctUrls == [](ListedOnce => NoDuplicate(progress_file.processed)) /\ [][ListedOnce => ~FetchesProcessed]_vars

-----------------------------------------------------------------------------
(* The search endpoints of the API (src/database/database_api.py): POST     *)
(* /search and POST /search/normalized.  data is the JSON body with its     *)
(* criteria read under either spelling of each key.                         *)

\* search_specs.py lines 64-71 and 333: the parameters of the two functions.
search_specs_parameters == <<"valve_type", "size_nominal", "body_material", "pressure_class", "end_connection", "max_results">>

search_specs_by_normalized_specs_parameters == <<"normalized_specs", "max_results">>

\* Python binds a call when there are no more positional arguments than
\* parameters and every keyword names a parameter that no positional
\* argument has filled; otherwise the call raises TypeError.
Binds(parameters, positional, keywords) ==
  /\ positional <= Len(parameters)
  /\ \A keyword \in keywords : \E k \in (positional + 1)..Len(parameters) : parameters[k] = keyword

\* Lines 125-133: the keywords of the call in search().
SearchKeywords == {"valve_type", "size_nominal", "body_material", "pressure_class", "end_connection", "max_results", "make_material_optional"}

\* Line 185: search_specs_by_normalized_specs(normalized_specs, max_results,
\* make_material_optional).
NormalizedArguments == <<"normalized_specs", "max_results", "make_material_optional">>

\* search_specs.py lines 349-356: the keywords of the call inside
\* search_specs_by_normalized_specs.
NormalizedKeywords == {"valve_type", "size_nominal", "body_material", "pressure_class", "end_connection", "max_results"}

\* Lines 136-158 and 188-210: a row as the answer shows it.
Formatted(result) ==
  [id |-> result.id, valveType |-> result.valve_type, size |-> result.size_nominal,
   material |-> result.body_material, pressureClass |-> result.pressure_class,
   endConnection |-> OrElse(result.end_connection_inlet, result.end_connection_outlet)]

FormattedResults(results) == [k \in 1..Len(results) |-> Formatted(results[k])]

\* Lines 160-164 and 212-216: success; 166-170 and 218-222: an exception.
Success(results) == [status |-> 200, success |-> TRUE, results |-> FormattedResults(results)]

Error == [status |-> 500, success |-> FALSE, results |-> <<>>]

\* What the handler answers: the call binds or raises TypeError; the search
\* connects or raises; the rows are formatted.
Answer(binds, storage_error, results) == IF binds /\ ~storage_error THEN Success(results) ELSE Error

\* Lines 117-170: POST /search.
Search(data, max_results, storage_error) ==
  /\ call = NoCall
  /\ LET binds == Binds(search_specs_parameters, 0, SearchKeywords)
     IN call' = [op |-> "search", data |-> data, max_results |-> max_results,
                 storage_error |-> storage_error, searched |-> binds,
                 ret |-> Answer(binds, storage_error, search_specs(valve_specs, data, max_results))]
  /\ UNCHANGED <<tablesExist, store, valve_specs, threads, cursors, redis, progress_file, fetched>>

\* Lines 172-222: POST /search/normalized.
SearchNormalized(data, max_results, storage_error) ==
  /\ call = NoCall
  /\ LET binds == /\ Binds(search_specs_by_normalized_specs_parameters, Len(NormalizedArguments), {})
                  /\ Binds(search_specs_parameters, 0, NormalizedKeywords)
     IN call' = [op |-> "search_normalized", data |-> data, max_results |-> max_results,
                 storage_error |-> storage_error, searched |-> binds,
                 ret |-> Answer(binds, storage_error, search_specs(valve_specs, data, max_results))]
  /\ UNCHANGED <<tablesExist, store, valve_specs, threads, cursors, redis, progress_file, fetched>>

NextApi ==
  \/ \E row \in SpecRows : InsertSpec(row)
  \/ call = NoCall /\ \E data \in SearchCriteria, max_results \in 0..MaxResults, storage_error \in BOOLEAN : Search(data, max_results, storage_error)
  \/ call = NoCall /\ \E data \in SearchCriteria, max_results \in 0..MaxResults, storage_error \in BOOLEAN : SearchNormalized(data, max_results, storage_error)
  \/ Return

SpecApi == Init /\ [][NextApi]_vars

-----------------------------------------------------------------------------
(* Properties of the search endpoints.                                      *)

\* C30: with a reachable database, POST /search and POST /search/normalized
\* reach the single-table search and answer success=true with the matching
\* rows; they answer success=false only when the search raises a storage
\* error.
C30_SearchEndpointsAnswer ==
  call.op \in {"search", "search_normalized"} =>
    /\ ~call.storage_error =>
         /\ call.searched
         /\ call.ret = Success(search_specs(valve_specs, call.data, call.max_results))
    /\ ~call.ret.success => call.storage_error

\* Neither endpoint ever answers success=true.
EndpointsAlwaysFail == call.op \in {"search", "search_normalized"} => ~call.ret.success

====
